---- MODULE Spec2Model ----
(***************************************************************************)
(* Model of the export pipeline of the Claude-to-Notion exporter:          *)
(*   - chunkText (the Chunker),                                            *)
(*   - retryWithBackoff / handleSummarization (the Summarizer),            *)
(*   - handleFullExport, createNotionToggles, appendNotionToggles,         *)
(*     storeExportHistory, updateProgress (Orchestrator, Document Builder, *)
(*     Ledger), driven by the popup's handleExport and polling,           *)
(*   - groupTurns of the content script.                                   *)
(* The specifications share the variables: SpecChunk runs chunkText on     *)
(* bounded texts, SpecSum runs one handleSummarization call request by     *)
(* request, Spec runs whole export runs started from the popup,            *)
(* SpecLedger runs storeExportHistory callback by callback, SpecGroup runs *)
(* groupTurns message by message.                                          *)
(***************************************************************************)
EXTENDS Integers, Sequences, FiniteSets, TLC

VARIABLES
    \* chunkText(text, maxLength): its arguments and locals
    ckText, ckMax, ckRemaining, ckChunks, ckPc

ckVars == <<ckText, ckMax, ckRemaining, ckChunks, ckPc>>

VARIABLES
    sPc,            \* "request" (a fetch is awaited), "backoff", "returned", "thrown"
    sAttempt,       \* retryWithBackoff's attempt, from 0
    sModel,         \* index into modelsToTry of the candidate being requested
    sLastError,     \* handleSummarization's lastError
    sResult,        \* the TurnSummary returned, or NoValue
    sRequests,      \* number of fetches issued by the call so far
    sStatuses,      \* answers of the candidates of the current attempt
    sDelays,        \* the sleeps retryWithBackoff has made, in order
    sAsked          \* the candidates requested in the current attempt, in order

sVars == <<sPc, sAttempt, sModel, sLastError, sResult, sRequests, sStatuses, sDelays,
          sAsked>>

VARIABLES
    exportHistory,  \* chrome.storage.local exportHistory: the Ledger
    exportProgress, \* chrome.storage.local exportProgress, or NoValue
    masters,        \* the master toggles on the Notion page, in creation order
    runs,           \* the handleFullExport activations, per slot
    started,        \* how many activations there have been
    faults,         \* how many requests have failed, teardowns of the worker included
    popup           \* the popup window's script state

oVars == <<exportHistory, exportProgress, masters, runs, started, faults, popup>>

VARIABLES
    lgStore,        \* chrome.storage.local's exportHistory object, by conversation URL
    lgCalls,        \* the calls of storeExportHistory in progress, by caller
    lgMade          \* how many calls have been made

lVars == <<lgStore, lgCalls, lgMade>>

VARIABLES
    \* groupTurns(turns) of the content script: its argument and locals
    gtTurns,        \* the extracted messages, in page order
    gtPos,          \* how many of them forEach has visited
    gtPairs,        \* pairs
    gtCurrentPair,  \* currentPair
    gtTurnNumber,   \* turnNumber
    gtPc            \* "loop" or "returned"

gVars == <<gtTurns, gtPos, gtPairs, gtCurrentPair, gtTurnNumber, gtPc>>

vars == <<ckVars, sVars, oVars, lVars, gVars>>


(***************************************************************************)
(* Bounds of the model.                                                    *)
(***************************************************************************)
MaxTextLen == 5
MaxLimit == 3

(***************************************************************************)
(* Strings are sequences of characters; positions in the operators below   *)
(* are 0-based, as in JavaScript.                                          *)
(***************************************************************************)
Chars == {"a", ".", " ", "\n"}
Whitespace == {" ", "\n"}

RECURSIVE StringsUpTo(_)
StringsUpTo(n) ==
    IF n = 0 THEN {<<>>}
    ELSE LET shorter == StringsUpTo(n - 1)
         IN  shorter \cup {Append(s, c) : s \in {t \in shorter : Len(t) = n - 1}, c \in Chars}

Min(a, b) == IF a < b THEN a ELSE b
Max(a, b) == IF a < b THEN b ELSE a

\* String.prototype.substring(from, to) and substring(from)
Substring(s, from, to) ==
    LET a == Min(Max(from, 0), Len(s))
        b == Min(Max(to, 0), Len(s))
    IN  SubSeq(s, Min(a, b) + 1, Max(a, b))

SubstringFrom(s, from) == Substring(s, from, Len(s))

\* String.prototype.trim()
RECURSIVE TrimStart(_)
TrimStart(s) ==
    IF Len(s) > 0 /\ Head(s) \in Whitespace THEN TrimStart(Tail(s)) ELSE s

RECURSIVE TrimEnd(_)
TrimEnd(s) ==
    IF Len(s) > 0 /\ s[Len(s)] \in Whitespace
    THEN TrimEnd(SubSeq(s, 1, Len(s) - 1))
    ELSE s

Trim(s) == TrimEnd(TrimStart(s))

\* pattern occurs in s at 0-based position i
OccursAt(s, pattern, i) ==
    /\ i >= 0
    /\ i + Len(pattern) <= Len(s)
    /\ SubSeq(s, i + 1, i + Len(pattern)) = pattern

\* String.prototype.lastIndexOf(pattern, position): the greatest index
\* <= position at which pattern occurs, or -1
LastIndexOf(s, pattern, position) ==
    LET found == {i \in 0..Min(Max(position, 0), Len(s)) : OccursAt(s, pattern, i)}
    IN  IF found = {} THEN -1 ELSE CHOOSE i \in found : \A j \in found : j <= i

\* String.prototype.includes(pattern)
Includes(s, pattern) == \E i \in 0..Len(s) : OccursAt(s, pattern, i)

SentenceMark == <<".", " ">>
ParagraphMark == <<"\n", "\n">>

(***************************************************************************)
(* Message texts, as character sequences, so that the substring tests of   *)
(* retryWithBackoff are computed and not assumed.                          *)
(***************************************************************************)
Pattern429 ==
    <<"4", "2", "9">>

PatternRateLimit ==
    <<"r", "a", "t", "e", " ", "l", "i", "m", "i", "t">>

Pattern5 ==
    <<"5">>

PatternError ==
    <<"E", "r", "r", "o", "r">>

RateLimitPrefix ==
    <<"R", "a", "t", "e", " ", "l", "i", "m", "i", "t", " ", "(", "4", "2",
      "9", ")", ":", " ">>

ApiErrorPrefix ==
    <<"A", "P", "I", " ", "E", "r", "r", "o", "r", ":", " ">>

ModelNotFoundPrefix ==
    <<"M", "o", "d", "e", "l", " ", "n", "o", "t", " ", "f", "o", "u", "n",
      "d", ":", " ">>

HttpPrefix ==
    <<"H", "T", "T", "P", " ">>

FailedToFetch ==
    <<"F", "a", "i", "l", "e", "d", " ", "t", "o", " ", "f", "e", "t", "c",
      "h">>

NoContentMessage ==
    <<"C", "a", "n", "n", "o", "t", " ", "r", "e", "a", "d", " ", "p", "r",
      "o", "p", "e", "r", "t", "i", "e", "s", " ", "o", "f", " ", "u", "n",
      "d", "e", "f", "i", "n", "e", "d", " ", "(", "r", "e", "a", "d", "i",
      "n", "g", " ", "'", "0", "'", ")">>

Sonnet35New ==
    <<"c", "l", "a", "u", "d", "e", "-", "3", "-", "5", "-", "s", "o", "n",
      "n", "e", "t", "-", "2", "0", "2", "4", "1", "0", "2", "2">>

Sonnet35Old ==
    <<"c", "l", "a", "u", "d", "e", "-", "3", "-", "5", "-", "s", "o", "n",
      "n", "e", "t", "-", "2", "0", "2", "4", "0", "6", "2", "0">>

Opus3 ==
    <<"c", "l", "a", "u", "d", "e", "-", "3", "-", "o", "p", "u", "s", "-",
      "2", "0", "2", "4", "0", "2", "2", "9">>

Sonnet3 ==
    <<"c", "l", "a", "u", "d", "e", "-", "3", "-", "s", "o", "n", "n", "e",
      "t", "-", "2", "0", "2", "4", "0", "2", "2", "9">>

Haiku3 ==
    <<"c", "l", "a", "u", "d", "e", "-", "3", "-", "h", "a", "i", "k", "u",
      "-", "2", "0", "2", "4", "0", "3", "0", "7">>

Msg400 ==
    <<"p", "r", "o", "m", "p", "t", " ", "i", "s", " ", "t", "o", "o", " ",
      "l", "o", "n", "g", ":", " ", "2", "5", "0", "0", "0", "0", " ", "t",
      "o", "k", "e", "n", "s">>

Msg401 ==
    <<"i", "n", "v", "a", "l", "i", "d", " ", "x", "-", "a", "p", "i", "-",
      "k", "e", "y">>

Msg404 ==
    <<"m", "o", "d", "e", "l", " ", "n", "o", "t", " ", "f", "o", "u", "n",
      "d">>

Msg429 ==
    <<"T", "o", "o", " ", "m", "a", "n", "y", " ", "r", "e", "q", "u", "e",
      "s", "t", "s">>

Msg500 ==
    <<"I", "n", "t", "e", "r", "n", "a", "l", " ", "s", "e", "r", "v", "e",
      "r", " ", "e", "r", "r", "o", "r">>

Msg529 ==
    <<"O", "v", "e", "r", "l", "o", "a", "d", "e", "d">>

(***************************************************************************)
(* Summarizer: retryWithBackoff(fn, 3, 1000) around the candidate loop of  *)
(* handleSummarization.                                                    *)
(***************************************************************************)

NoValue == [kind |-> "none"]

MaxRetries == 3
InitialDelay == 1000

modelsToTry == <<Sonnet35New, Sonnet35Old, Opus3, Sonnet3, Haiku3>>

DigitChar == <<"0", "1", "2", "3", "4", "5", "6", "7", "8", "9">>

\* `${response.status}` of a three-digit status
StatusString(status) ==
    <<DigitChar[(status \div 100) + 1],
      DigitChar[((status \div 10) % 10) + 1],
      DigitChar[(status % 10) + 1]>>

\* Answers of the summarization endpoint to one fetch.  "network" is a
\* rejected fetch; a non-2xx answer carries either a JSON body with
\* error.message ("json") or a body that is no JSON ("none"); a 2xx answer
\* carries content[0].text with a JSON payload ("json"), free text ("text"),
\* or no content array ("missing").
ErrorStatuses == {400, 401, 404, 429, 500, 529}

Responses ==
    {[net |-> "down", status |-> 0, body |-> "none"]}
    \cup [net : {"up"}, status : ErrorStatuses, body : {"json", "none"}]
    \cup [net : {"up"}, status : {200}, body : {"json", "text", "missing"}]

RemoteMessage(status) ==
    CASE status = 400 -> Msg400
      [] status = 401 -> Msg401
      [] status = 404 -> Msg404
      [] status = 429 -> Msg429
      [] status = 500 -> Msg500
      [] OTHER -> Msg529

\* response.statusText: empty over HTTP/2, which the endpoint speaks
StatusText(status) == <<>>

\* errorMessage of a non-2xx answer
ErrorMessageOf(resp) ==
    IF resp.body = "json" THEN RemoteMessage(resp.status)
    ELSE IF StatusText(resp.status) # <<>> THEN StatusText(resp.status)
    ELSE HttpPrefix \o StatusString(resp.status)

\* response.ok
ResponseOk(resp) == resp.net = "up" /\ resp.status \in 200..299

\* the candidate answered with a summary the loop returns
CandidateReturns(resp) == ResponseOk(resp) /\ resp.body # "missing"

\* error.message of the Error with which the candidate's iteration ends
\* (every one is caught by the loop's catch, or set before `continue`)
CandidateError(model, resp) ==
    IF resp.net = "down" THEN FailedToFetch
    ELSE IF ResponseOk(resp) THEN NoContentMessage
    ELSE IF resp.status = 404 THEN ModelNotFoundPrefix \o modelsToTry[model]
    ELSE IF resp.status = 429 THEN RateLimitPrefix \o ErrorMessageOf(resp)
    ELSE ApiErrorPrefix \o ErrorMessageOf(resp)

\* a loop that a rate-limited candidate would leave
EscapesLoopWhenRateLimited(resp) == resp.net = "up" /\ resp.status = 429

\* an Error of a candidate's iteration that leaves the loop over the
\* candidates: none does, the catch around the iteration goes on
EscapesLoop(resp) == FALSE

\* a loop that would pass over every other candidate
NextCandidateSkipping(model) == model + 2

\* the candidate the loop goes to after candidate `model`
NextCandidate(model) == model + 1

\* retryWithBackoff's shouldRetry
shouldRetry(message) ==
    \/ Includes(message, Pattern429)
    \/ Includes(message, PatternRateLimit)
    \/ (Includes(message, Pattern5) /\ Includes(message, PatternError))

RECURSIVE Pow2(_)
Pow2(n) == IF n = 0 THEN 1 ELSE 2 * Pow2(n - 1)

\* a wait that would not grow with the attempts
BackoffDelayFixed(attempt) == InitialDelay

\* the delay before the attempt after `attempt`
BackoffDelay(attempt) == InitialDelay * Pow2(attempt)

\* a retryWithBackoff that would not count its attempts
RethrowsUnlessRetryable(message, attempt) == ~shouldRetry(message)

\* retryWithBackoff rethrows instead of sleeping
Rethrows(message, attempt) == ~shouldRetry(message) \/ attempt = MaxRetries - 1

\* the turn handed to handleSummarization in SpecSum
SumTurn == [turnNumber |-> 1, user |-> 1, assistant |-> 1]

\* the TurnSummary built from a 2xx answer
SummaryOf(turn, resp) ==
    [turnNumber |-> turn.turnNumber,
     oneLine |-> IF resp.body = "json" THEN "model" ELSE "firstSentence",
     sourceUser |-> turn.user,
     sourceAssistant |-> turn.assistant]

SumInit ==
    /\ sPc = "request"
    /\ sAttempt = 0
    /\ sModel = 1
    /\ sLastError = <<>>
    /\ sResult = NoValue
    /\ sRequests = 0
    /\ sStatuses = <<>>
    /\ sDelays = <<>>
    /\ sAsked = <<>>

\* the candidate answers 2xx with content: the summary is returned
SumCandidateSucceeds(resp) ==
    /\ sPc = "request"
    /\ CandidateReturns(resp)
    /\ sResult' = SummaryOf(SumTurn, resp)
    /\ sRequests' = sRequests + 1
    /\ sStatuses' = Append(sStatuses, resp.status)
    /\ sAsked' = Append(sAsked, sModel)
    /\ sPc' = "returned"
    /\ UNCHANGED <<ckVars, oVars, lVars, gVars, sAttempt, sModel, sLastError, sDelays>>

\* the candidate fails and is not the last of the list: next candidate
SumCandidateFails(resp) ==
    /\ sPc = "request"
    /\ ~CandidateReturns(resp)
    /\ sModel < Len(modelsToTry) /\ ~EscapesLoop(resp)
    /\ sLastError' = CandidateError(sModel, resp)
    /\ sModel' = NextCandidate(sModel)
    /\ sRequests' = sRequests + 1
    /\ sStatuses' = Append(sStatuses, resp.status)
    /\ sAsked' = Append(sAsked, sModel)
    /\ UNCHANGED <<ckVars, oVars, lVars, gVars, sPc, sAttempt, sResult, sDelays>>

\* the last candidate fails: fn throws lastError, retryWithBackoff sleeps
SumAttemptRetried(resp) ==
    /\ sPc = "request"
    /\ ~CandidateReturns(resp)
    /\ (sModel = Len(modelsToTry) \/ EscapesLoop(resp))
    /\ ~Rethrows(CandidateError(sModel, resp), sAttempt)
    /\ sLastError' = CandidateError(sModel, resp)
    /\ sRequests' = sRequests + 1
    /\ sStatuses' = Append(sStatuses, resp.status)
    /\ sAsked' = Append(sAsked, sModel)
    /\ sDelays' = Append(sDelays, BackoffDelay(sAttempt))
    /\ sPc' = "backoff"
    /\ UNCHANGED <<ckVars, oVars, lVars, gVars, sAttempt, sModel, sResult>>

\* the last candidate fails: fn throws lastError, retryWithBackoff rethrows
SumAttemptThrows(resp) ==
    /\ sPc = "request"
    /\ ~CandidateReturns(resp)
    /\ (sModel = Len(modelsToTry) \/ EscapesLoop(resp))
    /\ Rethrows(CandidateError(sModel, resp), sAttempt)
    /\ sLastError' = CandidateError(sModel, resp)
    /\ sRequests' = sRequests + 1
    /\ sStatuses' = Append(sStatuses, resp.status)
    /\ sAsked' = Append(sAsked, sModel)
    /\ sPc' = "thrown"
    /\ UNCHANGED <<ckVars, oVars, lVars, gVars, sAttempt, sModel, sResult, sDelays>>

\* the sleep ends: fn is called again, from the first candidate
SumBackoffEnds ==
    /\ sPc = "backoff"
    /\ sAttempt' = sAttempt + 1
    /\ sModel' = 1
    /\ sLastError' = <<>>
    /\ sStatuses' = <<>>
    /\ sAsked' = <<>>
    /\ sPc' = "request"
    /\ UNCHANGED <<ckVars, oVars, lVars, gVars, sResult, sRequests, sDelays>>

NextSum ==
    \/ \E resp \in Responses : SumCandidateSucceeds(resp)
    \/ \E resp \in Responses : SumCandidateFails(resp)
    \/ \E resp \in Responses : SumAttemptRetried(resp)
    \/ \E resp \in Responses : SumAttemptThrows(resp)
    \/ SumBackoffEnds


(***************************************************************************)
(* chunkText                                                               *)
(***************************************************************************)
\* what chunkText returns for a text within the limit
WholeTextTrimmed(text) == <<Trim(text)>>

\* return [text]
WholeText(text) == <<text>>

\* a cut that takes nothing from the remaining text
BreakPointAtStart(remaining, maxLength) == 0

\* the break point of one iteration of the cutting loop
BreakPoint(remaining, maxLength) ==
    LET sentenceBreak == LastIndexOf(remaining, SentenceMark, maxLength)
        paragraphBreak == LastIndexOf(remaining, ParagraphMark, maxLength)
    IN  IF 2 * paragraphBreak > maxLength THEN paragraphBreak + 2
        ELSE IF 2 * sentenceBreak > maxLength THEN sentenceBreak + 2
        ELSE maxLength

\* a chunk that would end one character before the break point
CutChunkBeforeBreak(remaining, maxLength) ==
    Trim(Substring(remaining, 0, BreakPoint(remaining, maxLength) - 1))

\* chunks.push(remaining.substring(0, breakPoint).trim())
CutChunk(remaining, maxLength) ==
    Trim(Substring(remaining, 0, BreakPoint(remaining, maxLength)))

\* a rest that starts one character after the break point
CutRestSkipping(remaining, maxLength) ==
    Trim(SubstringFrom(remaining, BreakPoint(remaining, maxLength) + 1))

CutRest(remaining, maxLength) ==
    Trim(SubstringFrom(remaining, BreakPoint(remaining, maxLength)))

RECURSIVE ChunkLoop(_, _, _)
ChunkLoop(remaining, maxLength, chunks) ==
    IF Len(remaining) = 0 THEN chunks
    ELSE IF Len(remaining) <= maxLength THEN Append(chunks, remaining)
    ELSE ChunkLoop(CutRest(remaining, maxLength), maxLength,
                   Append(chunks, CutChunk(remaining, maxLength)))

chunkText(text, maxLength) ==
    IF Len(text) <= maxLength THEN WholeText(text) ELSE ChunkLoop(text, maxLength, <<>>)

\* a Source Text toggle that would get all chunks in one block
ChunkBlocksMerged(chunks) == <<[type |-> "paragraph", content |-> chunks]>>

\* assistantChunks.map(chunk => ({type: 'paragraph', ... content: chunk})):
\* the paragraph blocks written for the chunks of one text
ChunkBlocks(chunks) ==
    [k \in 1..Len(chunks) |-> [type |-> "paragraph", content |-> chunks[k]]]

\* sourceTextChildren, the children PATCHed into one "Source Text" toggle;
\* the two labels are paragraphs with annotations: { bold: true }
sourceTextChildren(userChunks, assistantChunks) ==
    <<[type |-> "paragraph", content |-> <<"U", "s", "e", "r", ":">>, bold |-> TRUE]>>
        \o ChunkBlocks(userChunks)
        \o <<[type |-> "paragraph",
              content |-> <<"A", "s", "s", "i", "s", "t", "a", "n", "t", ":">>,
              bold |-> TRUE]>>
        \o ChunkBlocks(assistantChunks)

\* the same function, one loop iteration per step
ChunkInit ==
    /\ ckText \in StringsUpTo(MaxTextLen)
    /\ ckMax \in 1..MaxLimit
    /\ ckRemaining = <<>>
    /\ ckChunks = <<>>
    /\ ckPc = "call"

ChunkReturnWhole ==
    /\ ckPc = "call"
    /\ Len(ckText) <= ckMax
    /\ ckChunks' = WholeText(ckText)
    /\ ckPc' = "done"
    /\ UNCHANGED <<sVars, oVars, lVars, gVars, ckText, ckMax, ckRemaining>>

ChunkStart ==
    /\ ckPc = "call"
    /\ Len(ckText) > ckMax
    /\ ckRemaining' = ckText
    /\ ckChunks' = <<>>
    /\ ckPc' = "loop"
    /\ UNCHANGED <<sVars, oVars, lVars, gVars, ckText, ckMax>>

ChunkExhausted ==
    /\ ckPc = "loop"
    /\ Len(ckRemaining) = 0
    /\ ckPc' = "done"
    /\ UNCHANGED <<sVars, oVars, lVars, gVars, ckText, ckMax, ckRemaining, ckChunks>>

ChunkLast ==
    /\ ckPc = "loop"
    /\ Len(ckRemaining) > 0
    /\ Len(ckRemaining) <= ckMax
    /\ ckChunks' = Append(ckChunks, ckRemaining)
    /\ ckPc' = "done"
    /\ UNCHANGED <<sVars, oVars, lVars, gVars, ckText, ckMax, ckRemaining>>

ChunkCut ==
    /\ ckPc = "loop"
    /\ Len(ckRemaining) > ckMax
    /\ ckChunks' = Append(ckChunks, CutChunk(ckRemaining, ckMax))
    /\ ckRemaining' = CutRest(ckRemaining, ckMax)
    /\ UNCHANGED <<sVars, oVars, lVars, gVars, ckText, ckMax, ckPc>>

NextChunk ==
    \/ ChunkReturnWhole
    \/ ChunkStart
    \/ ChunkExhausted
    \/ ChunkLast
    \/ ChunkCut


(***************************************************************************)
(* Orchestrator, Document Builder and Ledger: export runs in the           *)
(* background worker, started by the popup.                                *)
(***************************************************************************)

MaxTurns == 3       \* longest transcript
MaxRuns == 2        \* handleFullExport activations that may be in flight together
MaxExports == 2     \* activations in one behaviour
MaxFaults == 2      \* failed requests and teardowns in one behaviour

NOTION_BLOCK_LIMIT == 2000

Convs == {"c1"}
Runs == 1..MaxRuns

\* what the Notion API answers to one fetch: a 2xx answer, a non-2xx answer
\* with a message, or no answer (the fetch rejects)
NotionMessages == {"object_not_found"}

OkResponse == [net |-> "up", ok |-> TRUE, message |-> "none"]

NotionResponses ==
    {OkResponse, [net |-> "down", ok |-> FALSE, message |-> "none"]}
    \cup [net : {"up"}, ok : {FALSE}, message : NotionMessages]

\* 1 for a request that failed
Fault(resp) == IF resp = OkResponse THEN 0 ELSE 1

\* the turn at a position of a conversation, as groupTurns numbers it
TurnAt(position) == [turnNumber |-> position, user |-> position, assistant |-> position]

\* messages of the Errors handleFullExport can catch
NoNewTurnsMessage == <<"No new turns to export">>
NotionErrorMessage(resp) == <<"Notion API Error", resp.message>>
NetworkErrorMessage == <<"Failed to fetch">>

\* the Error a Notion fetch raises when the code checks the answer:
\* `throw new Error(...)` on !response.ok, the rejection itself otherwise
NotionFailure(resp) ==
    IF resp.net = "down" THEN NetworkErrorMessage ELSE NotionErrorMessage(resp)

ProgressRecord(status, current, total, text, turn, of) ==
    [status |-> status, current |-> current, total |-> total,
     message |-> [text |-> text, turn |-> turn, of |-> of]]

\* an error record under another status
ErrorProgressAsFailed(message) == ProgressRecord("failed", 0, 0, message, 0, 0)

\* what updateProgress('error', 0, 0, error.message) writes
ErrorProgress(message) == ProgressRecord("error", 0, 0, message, 0, 0)

HistoryRecord(turnCount, parentBlockId) ==
    [kind |-> "record", turnCount |-> turnCount, parentBlockId |-> parentBlockId]

IdleRun ==
    [pc |-> "idle", conv |-> "c1", total |-> 0,
     exportMode |-> "full", existing |-> NoValue,
     startIndex |-> 0, i |-> 0, summaries |-> <<>>,
     parentBlockId |-> 0, base |-> 0, children |-> 0, popI |-> 0,
     error |-> <<>>,
     \* what the run has done so far
     calls |-> <<>>, skeleton |-> "none", phase2 |-> 0, appended |-> <<>>,
     sleeps |-> <<>>,
     failedIn |-> "none", wroteLedger |-> FALSE,
     \* the notification the run has created
     notice |-> NoValue]

ActivePcs ==
    {"starting", "summarizing", "summary", "creating", "skeleton", "readMaster",
     "populate", "store", "clear", "catch"}

InFlight(r) == runs[r].pc \in ActivePcs

\* turnsToProcess.length
SliceLength(run) == IF run.total > run.startIndex THEN run.total - run.startIndex ELSE 0

\* exportMode === 'update' && existingExportData
UpdateMode(run) == run.exportMode = "update" /\ run.existing # NoValue

\* an update whose empty slice is processed like any other
EmptySliceNeverRaises(run) == FALSE

\* if (turnsToProcess.length === 0) throw new Error('No new turns to export'),
\* inside the update branch
EmptySliceRaises(run) == UpdateMode(run) /\ SliceLength(run) = 0

\* a slice that starts at the first turn whatever the mode
SliceStartAtFirstTurn(exportMode, existing) == 0

\* startIndex, as handleFullExport determines it
SliceStart(exportMode, existing) ==
    IF exportMode = "update" /\ existing # NoValue THEN existing.turnCount ELSE 0

\* a loop that would take the turns of the transcript from the last one
PositionOfFromEnd(run, i) == run.total - i

\* the position in the transcript of turnsToProcess[i]
PositionOf(run, i) == run.startIndex + i + 1

\* the summary handleSummarization returns for a turn
ModelSummary(turn) ==
    [turnNumber |-> turn.turnNumber,
     oneLine |-> [text |-> "summary", n |-> turn.turnNumber],
     sourceUser |-> turn.user, sourceAssistant |-> turn.assistant]

\* the summary pushed in the catch around handleSummarization
SentinelSummary(turn) ==
    [turnNumber |-> turn.turnNumber,
     oneLine |-> [text |-> "Turn N (summary failed)", n |-> turn.turnNumber],
     sourceUser |-> turn.user, sourceAssistant |-> turn.assistant]

\* a failed summarization that pushes nothing
SummariesWithoutSentinel(summaries, turn) == summaries

SummariesAfterFailure(summaries, turn) == Append(summaries, SentinelSummary(turn))

\* one per-turn toggle of the skeleton: the turn it is made for, and what
\* has been written into its "Source Text" toggle (0: nothing yet); the
\* label and paragraph texts are not kept
ToggleBlock(summary) == [turn |-> summary.sourceUser, source |-> 0]

RECURSIVE ToggleBlocks(_)
ToggleBlocks(summaries) ==
    IF summaries = <<>> THEN <<>>
    ELSE <<ToggleBlock(Head(summaries))>> \o ToggleBlocks(Tail(summaries))

RECURSIVE Positions(_)
Positions(summaries) ==
    IF summaries = <<>> THEN <<>>
    ELSE <<Head(summaries).sourceUser>> \o Positions(Tail(summaries))

\* a Notion fetch whose answer the code checks raises on these answers
Throws(resp) == resp.net = "down" \/ ~resp.ok

\* a Notion fetch whose answer the code does not look at
Rejects(resp) == resp.net = "down"

OrchInit ==
    /\ exportHistory = [c \in Convs |-> NoValue]
    /\ exportProgress = NoValue
    /\ masters = <<>>
    /\ runs = [r \in Runs |-> IdleRun]
    /\ started = 0
    /\ faults = 0
    /\ popup = [open |-> FALSE, conv |-> "c1", exportHistory |-> NoValue,
                buttons |-> "export", enabled |-> FALSE, run |-> 0,
                status |-> "none"]

(***************************************************************************)
(* The popup.  Extraction reads the conversation page, which another       *)
(* collaborator owns: what it finds (turns) is an input of each step that  *)
(* extracts, since the conversation grows, and shrinks when the user edits *)
(* an earlier prompt.                                                      *)
(***************************************************************************)
\* updateExportStatusUI: which buttons the popup shows; it is only called
\* when there is a record, and changes nothing when turns were removed
ButtonsFor(history, currentTurnCount) ==
    IF history = NoValue THEN "export"
    ELSE IF currentTurnCount - history.turnCount > 0 THEN "update"
    ELSE IF currentTurnCount - history.turnCount = 0 THEN "uptodate"
    ELSE "export"

\* the popup is opened on the conversation's tab: the load callback and
\* checkConversationStatus, which finds `turns` turns.  The initial Export
\* button is disabled while there is an exportProgress; the buttons
\* updateExportStatusUI makes are enabled
PopupOpen(c, turns) ==
    /\ popup' = [open |-> TRUE, conv |-> c,
                 exportHistory |-> exportHistory[c],
                 buttons |-> ButtonsFor(exportHistory[c], turns),
                 enabled |-> IF ButtonsFor(exportHistory[c], turns) = "export"
                             THEN exportProgress = NoValue
                             ELSE TRUE,
                 run |-> 0,
                 status |-> "none"]
    /\ UNCHANGED <<ckVars, sVars, lVars, gVars, exportHistory, exportProgress, masters, runs, started, faults>>

\* what extractConversation answers to handleExport: the number of turns it
\* found, or a failure
ExtractionFailed == 0 - 1
Extractions == {ExtractionFailed} \cup (0..MaxTurns)

\* a handleExport that would send whatever extraction answers
SendsStartExportAlways(found) == TRUE

\* handleExport goes on to chrome.runtime.sendMessage({action: 'startExport'}):
\* it has thrown if !response.success or turns.length === 0
SendsStartExport(found) == found # ExtractionFailed /\ found # 0

\* the modes the popup's buttons offer
Offers(buttons, mode) ==
    IF mode = "update" THEN buttons = "update" ELSE TRUE

\* handleExport: extraction finds no turn, nothing is sent and the buttons
\* are enabled again
ExportFindsNoTurns(found) ==
    /\ popup.open /\ popup.enabled
    /\ ~SendsStartExport(found)
    /\ popup' = [popup EXCEPT !.enabled = TRUE, !.status = "error"]
    /\ UNCHANGED <<ckVars, sVars, lVars, gVars, exportHistory, exportProgress, masters, runs, started, faults>>

\* the slot the next activation takes: the first one not in flight
FreeSlot(r) == ~InFlight(r) /\ \A q \in Runs : q < r => InFlight(q)

\* the exportData handleExport sends with startExport
NewRun(conv, total, mode, existing) ==
    [IdleRun EXCEPT !.conv = conv, !.total = total, !.exportMode = mode,
                    !.existing = existing,
                    !.startIndex = SliceStart(mode, existing)]

\* the slots once a new activation has slot r: activations that ended
\* earlier are forgotten
WithNewRun(r, run) ==
    [q \in Runs |-> IF q = r THEN run ELSE IF InFlight(q) THEN runs[q] ELSE IdleRun]

\* handleExport extracts `turns` turns and sends startExport; the listener
\* calls handleFullExport, which runs to its first await: the slice is not
\* empty
StartExport(r, mode, turns) ==
    LET existing == IF mode = "update" THEN popup.exportHistory ELSE NoValue
        run == NewRun(popup.conv, turns, mode, existing)
    IN  /\ popup.open /\ popup.enabled
        /\ SendsStartExport(turns)
        /\ Offers(popup.buttons, mode)
        /\ FreeSlot(r)
        /\ started < MaxExports
        /\ ~EmptySliceRaises(run)
        /\ runs' = WithNewRun(r, [run EXCEPT !.pc = "starting"])
        /\ started' = started + 1
        /\ popup' = [popup EXCEPT !.enabled = FALSE, !.run = r, !.status = "info"]
        /\ UNCHANGED <<ckVars, sVars, lVars, gVars, exportHistory, exportProgress, masters, faults>>

\* the same, with an empty slice: 'No new turns to export' is thrown
StartExportNoNewTurns(r, turns) ==
    LET run == NewRun(popup.conv, turns, "update", popup.exportHistory)
    IN  /\ popup.open /\ popup.enabled
        /\ SendsStartExport(turns)
        /\ Offers(popup.buttons, "update")
        /\ FreeSlot(r)
        /\ started < MaxExports
        /\ EmptySliceRaises(run)
        /\ runs' = WithNewRun(r, [run EXCEPT !.pc = "catch",
                                             !.error = NoNewTurnsMessage,
                                             !.failedIn = "slice"])
        /\ started' = started + 1
        /\ popup' = [popup EXCEPT !.enabled = FALSE, !.run = r, !.status = "info"]
        /\ UNCHANGED <<ckVars, sVars, lVars, gVars, exportHistory, exportProgress, masters, faults>>

(***************************************************************************)
(* handleFullExport                                                        *)
(***************************************************************************)
Step(r, run) == runs' = [runs EXCEPT ![r] = run]

\* a request that fails is within what the behaviour allows
Allowed(resp) == faults + Fault(resp) <= MaxFaults

\* await updateProgress('starting', 0, turnsToProcess.length, ...)
ProgressStarting(r) ==
    LET run == runs[r]
    IN  /\ run.pc = "starting"
        /\ exportProgress' = ProgressRecord("starting", 0, SliceLength(run),
                                            "Starting export...", 0, 0)
        /\ Step(r, [run EXCEPT !.pc = "summarizing", !.i = 0])
        /\ UNCHANGED <<ckVars, sVars, lVars, gVars, exportHistory, masters, started, faults, popup>>

\* a record that would count the turn in hand as done
SummarizingProgressOfNextTurn(run) ==
    ProgressRecord("summarizing", run.i + 1, SliceLength(run),
                   "Processing turn", PositionOf(run, run.i), run.total)

\* what updateProgress('summarizing', i, ...) writes
SummarizingProgress(run) ==
    ProgressRecord("summarizing", run.i, SliceLength(run),
                   "Processing turn", PositionOf(run, run.i), run.total)

\* the start of one iteration of the loop over turnsToProcess:
\* await updateProgress('summarizing', i, ...), then handleSummarization is
\* called for turnsToProcess[i] and awaited
SummaryRequested(r) ==
    LET run == runs[r]
    IN  /\ run.pc = "summarizing"
        /\ exportProgress' = SummarizingProgress(run)
        /\ Step(r, [run EXCEPT !.pc = "summary",
                               !.calls = Append(@, PositionOf(run, run.i))])
        /\ UNCHANGED <<ckVars, sVars, lVars, gVars, exportHistory, masters, started, faults, popup>>

\* a loop that would be left after its first iteration
AfterTurnLeavingLoop(run, summaries) ==
    [run EXCEPT !.summaries = summaries, !.i = @ + 1, !.pc = "creating"]

\* the delays between turns and after population writes, in milliseconds
TurnDelay == 800
PopulationDelay == 200

\* a loop that would sleep after its last turn too
AfterTurnAlwaysPaced(run, summaries) ==
    [run EXCEPT !.summaries = summaries,
                !.i = @ + 1,
                !.sleeps = Append(@, TurnDelay),
                !.pc = IF run.i < SliceLength(run) - 1 THEN "summarizing"
                       ELSE "creating"]

\* the end of one iteration of the loop over turnsToProcess: the summary is
\* pushed, and sleep(800) is awaited unless it was the last turn
AfterTurn(run, summaries) ==
    [run EXCEPT !.summaries = summaries,
                !.i = @ + 1,
                !.sleeps = IF run.i < SliceLength(run) - 1 THEN Append(@, TurnDelay)
                           ELSE @,
                !.pc = IF run.i < SliceLength(run) - 1 THEN "summarizing"
                       ELSE "creating"]

\* handleSummarization returns the turn's summary (sPc = "returned" in
\* SpecSum, which runs the call request by request)
SummaryReturned(r) ==
    LET run == runs[r]
        turn == TurnAt(PositionOf(run, run.i))
    IN  /\ run.pc = "summary"
        /\ Step(r, AfterTurn(run, Append(run.summaries, ModelSummary(turn))))
        /\ UNCHANGED <<ckVars, sVars, lVars, gVars, exportHistory, exportProgress, masters, started, faults, popup>>

\* handleSummarization throws (sPc = "thrown" in SpecSum): the catch around
\* it pushes the sentinel
SummaryFailed(r) ==
    LET run == runs[r]
        turn == TurnAt(PositionOf(run, run.i))
    IN  /\ run.pc = "summary"
        /\ faults < MaxFaults
        /\ faults' = faults + 1
        /\ Step(r, AfterTurn(run, SummariesAfterFailure(run.summaries, turn)))
        /\ UNCHANGED <<ckVars, sVars, lVars, gVars, exportHistory, exportProgress, masters, started, popup>>

\* a handleFullExport that would write 'creating' again and again
AfterCreatingAgain == "creating"

\* handleFullExport going to storeExportHistory without the Document Builder
AfterCreatingWithoutBuilder == "store"

\* where handleFullExport goes after the 'creating' progress is written
AfterCreating == "skeleton"

\* await updateProgress('creating', ...)
ProgressCreating(r) ==
    LET run == runs[r]
    IN  /\ run.pc = "creating"
        /\ exportProgress' = ProgressRecord("creating", SliceLength(run), SliceLength(run),
                                            "Creating Notion blocks...", 0, 0)
        /\ Step(r, [run EXCEPT !.pc = AfterCreating])
        /\ UNCHANGED <<ckVars, sVars, lVars, gVars, exportHistory, masters, started, faults, popup>>

\* an Error reaches handleFullExport's catch
Raise(run, message, where) ==
    [run EXCEPT !.pc = "catch", !.error = message, !.failedIn = where]

\* a skeleton request whose answer is not looked at
SkeletonRaisesOnRejectionOnly(resp) == resp.net = "down"

\* the skeleton request raises: `if (!response1.ok) throw`, or the fetch rejects
SkeletonRaises(resp) == resp.net = "down" \/ ~resp.ok

\* what the skeleton request did
SkeletonOutcome(resp) ==
    IF resp.net = "down" THEN "network" ELSE IF resp.ok THEN "ok" ELSE "rejected"

(***************************************************************************)
(* createNotionToggles                                                     *)
(***************************************************************************)
\* step 1: PATCH the master toggle, header and per-turn toggles onto the page
CreateSkeleton(r, resp) ==
    LET run == runs[r]
        written == IF resp = OkResponse
                   THEN Append(masters, [conv |-> run.conv, header |-> TRUE,
                                         turns |-> ToggleBlocks(run.summaries)])
                   ELSE masters
    IN  /\ run.pc = "skeleton" /\ ~UpdateMode(run)
        /\ Allowed(resp)
        /\ faults' = faults + Fault(resp)
        /\ masters' = written
        /\ Step(r, IF SkeletonRaises(resp)
                   THEN [Raise(run, NotionFailure(resp), "skeleton")
                            EXCEPT !.skeleton = SkeletonOutcome(resp)]
                   ELSE [run EXCEPT !.pc = "readMaster",
                                    !.skeleton = SkeletonOutcome(resp),
                                    !.parentBlockId = Len(written),
                                    !.appended = Positions(run.summaries)])
        /\ UNCHANGED <<ckVars, sVars, lVars, gVars, exportHistory, exportProgress, started, popup>>

\* the Document Builder returns to handleFullExport, which goes on with
\* turns.length and parentBlockId; the summaries are not read again
BuilderReturns(run) ==
    [IdleRun EXCEPT !.pc = "store", !.conv = run.conv, !.total = run.total,
                    !.exportMode = run.exportMode, !.existing = run.existing,
                    !.startIndex = run.startIndex,
                    !.parentBlockId = run.parentBlockId,
                    !.skeleton = run.skeleton]

\* the loop test of the population loop of createNotionToggles
MoreToPopulateCreate(run, i) == i < run.children /\ i <= Len(run.summaries)

\* step 2: GET the children of the master toggle
ReadMaster(r, resp) ==
    LET run == runs[r]
        children == 1 + Len(masters[run.parentBlockId].turns)
        read == [run EXCEPT !.children = children, !.popI = 1, !.phase2 = @ + 1]
    IN  /\ run.pc = "readMaster"
        /\ Allowed(resp)
        /\ faults' = faults + Fault(resp)
        /\ Step(r, IF Throws(resp)
                   THEN [Raise(run, NotionFailure(resp), "readMaster")
                            EXCEPT !.phase2 = @ + 1]
                   ELSE IF MoreToPopulateCreate(read, 1)
                        THEN [read EXCEPT !.pc = "populate"]
                        ELSE BuilderReturns(read))
        /\ UNCHANGED <<ckVars, sVars, lVars, gVars, exportHistory, exportProgress, masters, started, popup>>

(***************************************************************************)
(* appendNotionToggles                                                     *)
(***************************************************************************)
\* step 1: PATCH the new per-turn toggles onto the existing master toggle;
\* the answer lists the blocks it made
AppendSkeleton(r, resp) ==
    LET run == runs[r]
        master == run.existing.parentBlockId
        written == IF resp = OkResponse
                   THEN [masters EXCEPT ![master].turns = @ \o ToggleBlocks(run.summaries)]
                   ELSE masters
    IN  /\ run.pc = "skeleton" /\ UpdateMode(run)
        /\ Allowed(resp)
        /\ faults' = faults + Fault(resp)
        /\ masters' = written
        /\ Step(r, IF SkeletonRaises(resp)
                   THEN [Raise(run, NotionFailure(resp), "skeleton")
                            EXCEPT !.skeleton = SkeletonOutcome(resp)]
                   ELSE [run EXCEPT !.pc = "populate",
                                    !.skeleton = SkeletonOutcome(resp),
                                    !.parentBlockId = master,
                                    !.base = Len(masters[master].turns),
                                    !.children = Len(run.summaries),
                                    !.popI = 0,
                                    !.appended = Positions(run.summaries)])
        /\ UNCHANGED <<ckVars, sVars, lVars, gVars, exportHistory, exportProgress, started, popup>>

\* the loop test of the population loop of appendNotionToggles
MoreToPopulateAppend(run, i) == i < run.children

(***************************************************************************)
(* The population loop, the same in both functions but for its indexes.    *)
(***************************************************************************)
MoreToPopulate(run, i) ==
    IF UpdateMode(run) THEN MoreToPopulateAppend(run, i) ELSE MoreToPopulateCreate(run, i)

\* the index in summaries of the summary of iteration i
SummaryIndex(run, i) == IF UpdateMode(run) THEN i + 1 ELSE i

\* the index among the master's per-turn toggles of turnBlock of iteration i
BlockIndex(run, i) == IF UpdateMode(run) THEN run.base + i + 1 ELSE i

\* the next iteration, or the return to handleFullExport
NextIteration(run) ==
    IF MoreToPopulate(run, run.popI + 1) THEN [run EXCEPT !.popI = @ + 1]
    ELSE BuilderReturns(run)

\* one iteration in which the GET of the turn toggle's children fails:
\* `if (!response.ok) continue`, but a fetch that rejects is not caught
PopulationSkipped(r, resp) ==
    LET run == [runs[r] EXCEPT !.phase2 = @ + 1]
    IN  /\ run.pc = "populate"
        /\ resp # OkResponse
        /\ Allowed(resp)
        /\ faults' = faults + Fault(resp)
        /\ Step(r, IF Rejects(resp) THEN Raise(run, NotionFailure(resp), "popRead")
                   ELSE NextIteration(run))
        /\ UNCHANGED <<ckVars, sVars, lVars, gVars, exportHistory, exportProgress, masters, started, popup>>

\* one iteration in which the GET succeeds: the source text is PATCHed into
\* the turn's "Source Text" toggle, the answer is not looked at, and
\* sleep(200) is awaited
PopulationWritten(r, resp) ==
    LET run == [runs[r] EXCEPT !.phase2 = @ + 2]
        master == run.parentBlockId
        block == BlockIndex(run, run.popI)
        summary == run.summaries[SummaryIndex(run, run.popI)]
    IN  /\ run.pc = "populate"
        /\ Allowed(resp)
        /\ faults' = faults + Fault(resp)
        /\ masters' = IF resp = OkResponse
                      THEN [masters EXCEPT ![master].turns[block].source = summary.sourceUser]
                      ELSE masters
        /\ Step(r, IF Rejects(resp) THEN Raise(run, NotionFailure(resp), "popWrite")
                   ELSE NextIteration([run EXCEPT !.sleeps = Append(@, PopulationDelay)]))
        /\ UNCHANGED <<ckVars, sVars, lVars, gVars, exportHistory, exportProgress, started, popup>>

(***************************************************************************)
(* storeExportHistory, and the end of handleFullExport                     *)
(***************************************************************************)
\* storeExportHistory: chrome.storage.local.get(['exportHistory'], ...),
\* history[conversationUrl] = exportData, chrome.storage.local.set(...)
StoreHistory(r) ==
    LET run == runs[r]
    IN  /\ run.pc = "store"
        /\ exportHistory' = [exportHistory EXCEPT
                                ![run.conv] = HistoryRecord(run.total, run.parentBlockId)]
        /\ Step(r, [run EXCEPT !.pc = "clear", !.wroteLedger = TRUE])
        /\ UNCHANGED <<ckVars, sVars, lVars, gVars, exportProgress, masters, started, faults, popup>>

\* an activation that is over: its locals are gone, what it did is kept
Finished(run, pc) ==
    [IdleRun EXCEPT !.pc = pc, !.conv = run.conv, !.exportMode = run.exportMode,
                    !.error = run.error, !.failedIn = run.failedIn,
                    !.skeleton = run.skeleton,
                    !.wroteLedger = run.wroteLedger]

\* a notification that would count the whole transcript in both modes
CompletionNoticeOfAllTurns(run) ==
    [title |-> IF run.exportMode = "update" THEN "Update Complete" ELSE "Export Complete",
     text |-> IF run.exportMode = "update" THEN "Successfully added N new turns to Notion!"
              ELSE "Successfully exported N turns to Notion!",
     n |-> run.total]

\* chrome.notifications.create of the success path: the title, and the
\* message with the number it reports
CompletionNotice(run) ==
    [title |-> IF run.exportMode = "update" THEN "Update Complete" ELSE "Export Complete",
     text |-> IF run.exportMode = "update" THEN "Successfully added N new turns to Notion!"
              ELSE "Successfully exported N turns to Notion!",
     n |-> IF run.exportMode = "update" THEN SliceLength(run) ELSE run.total]

\* chrome.notifications.create of the catch
FailureNotice(run) == [title |-> "Export Failed", text |-> run.error, n |-> 0]

\* await chrome.storage.local.remove(['exportProgress']), the notification,
\* and sendResponse({success: true}); the popup that sent startExport finds
\* no exportProgress when it polls, and enables the initial Export button
ClearProgress(r) ==
    LET run == runs[r]
    IN  /\ run.pc = "clear"
        /\ exportProgress' = NoValue
        /\ Step(r, [Finished(run, "done") EXCEPT !.notice = CompletionNotice(run)])
        /\ popup' = IF popup.open /\ popup.run = r
                    THEN [popup EXCEPT !.enabled = (popup.buttons = "export"), !.run = 0,
                                       !.status = "success"]
                    ELSE popup
        /\ UNCHANGED <<ckVars, sVars, lVars, gVars, exportHistory, masters, started, faults>>

\* the outer catch: await updateProgress('error', 0, 0, error.message), the
\* notification, the rethrow and sendResponse({success: false, ...}); the
\* popup that sent startExport enables its buttons again
CatchError(r) ==
    LET run == runs[r]
    IN  /\ run.pc = "catch"
        /\ exportProgress' = ErrorProgress(run.error)
        /\ Step(r, [Finished(run, "failed") EXCEPT !.notice = FailureNotice(run)])
        /\ popup' = IF popup.open /\ popup.run = r
                    THEN [popup EXCEPT !.enabled = TRUE, !.run = 0, !.status = "error"]
                    ELSE popup
        /\ UNCHANGED <<ckVars, sVars, lVars, gVars, exportHistory, masters, started, faults>>

\* one tick of startProgressPolling's interval, at any time after
\* handleExport has started it: getProgress answers with the stored
\* exportProgress; none is taken for completion, one with status 'error' for
\* the failure, and both end the polling; any other one only moves the bar
PollProgress ==
    /\ popup.open /\ popup.run # 0
    /\ IF exportProgress = NoValue THEN TRUE ELSE exportProgress.status = "error"
    /\ popup' = [popup EXCEPT !.enabled = @ \/ popup.buttons = "export", !.run = 0,
                              !.status = IF exportProgress = NoValue THEN "success"
                                         ELSE "error"]
    /\ UNCHANGED <<ckVars, sVars, lVars, gVars, exportHistory, exportProgress, masters, runs, started, faults>>

\* the browser ends the service worker: every activation in flight is gone
\* at the await it was at, and the popup's startExport callback sees
\* chrome.runtime.lastError
Teardown ==
    /\ \E r \in Runs : InFlight(r)
    /\ faults < MaxFaults
    /\ faults' = faults + 1
    /\ runs' = [r \in Runs |-> IF InFlight(r) THEN Finished(runs[r], "torn") ELSE runs[r]]
    /\ popup' = IF popup.open /\ popup.run # 0
                THEN [popup EXCEPT !.enabled = TRUE, !.run = 0, !.status = "error"]
                ELSE popup
    /\ UNCHANGED <<ckVars, sVars, lVars, gVars, exportHistory, exportProgress, masters, started>>

TurnCounts == 0..MaxTurns

Next ==
    \/ \E c \in Convs, turns \in TurnCounts : PopupOpen(c, turns)
    \/ \E found \in Extractions : ExportFindsNoTurns(found)
    \/ PollProgress
    \/ \E r \in Runs, mode \in {"full", "update"}, turns \in Extractions :
           StartExport(r, mode, turns)
    \/ \E r \in Runs, turns \in Extractions : StartExportNoNewTurns(r, turns)
    \/ \E r \in Runs : ProgressStarting(r)
    \/ \E r \in Runs : SummaryRequested(r)
    \/ \E r \in Runs : SummaryReturned(r)
    \/ \E r \in Runs : SummaryFailed(r)
    \/ \E r \in Runs : ProgressCreating(r)
    \/ \E r \in Runs, resp \in NotionResponses : CreateSkeleton(r, resp)
    \/ \E r \in Runs, resp \in NotionResponses : ReadMaster(r, resp)
    \/ \E r \in Runs, resp \in NotionResponses : AppendSkeleton(r, resp)
    \/ \E r \in Runs, resp \in NotionResponses : PopulationSkipped(r, resp)
    \/ \E r \in Runs, resp \in NotionResponses : PopulationWritten(r, resp)
    \/ \E r \in Runs : StoreHistory(r)
    \/ \E r \in Runs : ClearProgress(r)
    \/ \E r \in Runs : CatchError(r)
    \/ Teardown

(***************************************************************************)
(* The Ledger by itself: storeExportHistory and getExportHistory over       *)
(* several conversations, one step per storage callback.                   *)
(***************************************************************************)

MaxStores == 3      \* calls of storeExportHistory in one behaviour

Urls == {"u1", "u2"}
Callers == {1, 2}

\* the exportData handleFullExport can pass
LedgerRecords == {HistoryRecord(turnCount, 1) : turnCount \in 1..2}

NoCall == [pc |-> "idle", url |-> "u1", data |-> NoValue, history |-> NoValue]

LedgerInit ==
    /\ lgStore = [u \in Urls |-> NoValue]
    /\ lgCalls = [w \in Callers |-> NoCall]
    /\ lgMade = 0

\* storeExportHistory(conversationUrl, exportData) is called: it issues
\* chrome.storage.local.get(['exportHistory'], ...)
LedgerStoreCalled(w, url, data) ==
    /\ lgCalls[w].pc \in {"idle", "resolved"}
    /\ lgMade < MaxStores
    /\ lgMade' = lgMade + 1
    /\ lgCalls' = [lgCalls EXCEPT ![w] = [pc |-> "get", url |-> url, data |-> data,
                                          history |-> NoValue]]
    /\ UNCHANGED <<ckVars, sVars, oVars, gVars, lgStore>>

\* history[conversationUrl] = exportData, on the object the get has read
HistoryWith(history, url, data) == [history EXCEPT ![url] = data]

\* the object the set starts from: the one the get's callback received
HistoryAtSet(history, store) == history

\* the get's callback: const history = result.exportHistory || {};
\* history[conversationUrl] = exportData; chrome.storage.local.set is issued
LedgerGetReturns(w) ==
    /\ lgCalls[w].pc = "get"
    /\ lgCalls' = [lgCalls EXCEPT ![w].pc = "set", ![w].history = lgStore]
    /\ UNCHANGED <<ckVars, sVars, oVars, gVars, lgStore, lgMade>>

\* the set is done: the whole exportHistory object is replaced, and the
\* promise resolves
LedgerSetDone(w) ==
    /\ lgCalls[w].pc = "set"
    /\ lgStore' = HistoryWith(HistoryAtSet(lgCalls[w].history, lgStore),
                              lgCalls[w].url, lgCalls[w].data)
    /\ lgCalls' = [lgCalls EXCEPT ![w].pc = "resolved"]
    /\ UNCHANGED <<ckVars, sVars, oVars, gVars, lgMade>>

NextLedger ==
    \/ \E w \in Callers, url \in Urls, data \in LedgerRecords :
           LedgerStoreCalled(w, url, data)
    \/ \E w \in Callers : LedgerGetReturns(w)
    \/ \E w \in Callers : LedgerSetDone(w)

(***************************************************************************)
(* The specifications.  Each runs one part and leaves the variables of the *)
(* other parts at rest.                                                    *)
(***************************************************************************)

(***************************************************************************)
(* groupTurns of the content script, one message of forEach per step.      *)
(* A message is {role, content}; extractConversation keeps only messages   *)
(* whose text is not empty, so content is 1 or more here and 0 stands for  *)
(* the empty string ''.                                                    *)
(***************************************************************************)
MaxMessages == 4

RECURSIVE MessagesUpTo(_)
MessagesUpTo(n) ==
    IF n = 0 THEN {<<>>}
    ELSE LET shorter == MessagesUpTo(n - 1)
         IN  shorter \cup {Append(s, [role |-> role, content |-> n]) :
                              s \in {t \in shorter : Len(t) = n - 1}, role \in {"user", "assistant"}}

\* pairs after `if (currentPair.user || currentPair.assistant)
\* pairs.push(currentPair)`
PairsPushed(pairs, pair) ==
    IF pair.user # 0 \/ pair.assistant # 0 THEN Append(pairs, pair) ELSE pairs

GroupInit ==
    /\ gtTurns \in MessagesUpTo(MaxMessages)
    /\ gtPos = 0
    /\ gtPairs = <<>>
    /\ gtCurrentPair = [user |-> 0, assistant |-> 0, turnNumber |-> 0]
    /\ gtTurnNumber = 1
    /\ gtPc = "loop"

\* turn.role === 'user': the pair in hand is pushed if it has content, and a
\* new pair is started with turnNumber++
GroupUserMessage ==
    /\ gtPc = "loop" /\ gtPos < Len(gtTurns)
    /\ gtTurns[gtPos + 1].role = "user"
    /\ gtPairs' = PairsPushed(gtPairs, gtCurrentPair)
    /\ gtCurrentPair' = [user |-> gtTurns[gtPos + 1].content, assistant |-> 0,
                         turnNumber |-> gtTurnNumber]
    /\ gtTurnNumber' = gtTurnNumber + 1
    /\ gtPos' = gtPos + 1
    /\ UNCHANGED <<ckVars, sVars, oVars, lVars, gtTurns, gtPc>>

\* turn.role === 'assistant': currentPair.assistant = turn.content
GroupAssistantMessage ==
    /\ gtPc = "loop" /\ gtPos < Len(gtTurns)
    /\ gtTurns[gtPos + 1].role = "assistant"
    /\ gtCurrentPair' = [gtCurrentPair EXCEPT !.assistant = gtTurns[gtPos + 1].content]
    /\ gtPos' = gtPos + 1
    /\ UNCHANGED <<ckVars, sVars, oVars, lVars, gtTurns, gtPairs, gtTurnNumber, gtPc>>

\* after forEach: the last pair is pushed if it has content; return pairs
GroupReturns ==
    /\ gtPc = "loop" /\ gtPos = Len(gtTurns)
    /\ gtPairs' = PairsPushed(gtPairs, gtCurrentPair)
    /\ gtPc' = "returned"
    /\ UNCHANGED <<ckVars, sVars, oVars, lVars, gtTurns, gtPos, gtCurrentPair, gtTurnNumber>>

NextGroup ==
    \/ GroupUserMessage
    \/ GroupAssistantMessage
    \/ GroupReturns

GroupAtRest ==
    /\ gtTurns = <<>>
    /\ gtPos = 0
    /\ gtPairs = <<>>
    /\ gtCurrentPair = [user |-> 0, assistant |-> 0, turnNumber |-> 0]
    /\ gtTurnNumber = 1
    /\ gtPc = "returned"

LedgerAtRest ==
    /\ lgStore = [u \in Urls |-> NoValue]
    /\ lgCalls = [w \in Callers |-> NoCall]
    /\ lgMade = 0

ChunkAtRest ==
    /\ ckText = <<>>
    /\ ckMax = 1
    /\ ckRemaining = <<>>
    /\ ckChunks = <<>>
    /\ ckPc = "off"

SumAtRest ==
    /\ sPc = "off"
    /\ sAttempt = 0
    /\ sModel = 1
    /\ sLastError = <<>>
    /\ sResult = NoValue
    /\ sRequests = 0
    /\ sStatuses = <<>>
    /\ sDelays = <<>>
    /\ sAsked = <<>>

Init == OrchInit /\ ChunkAtRest /\ SumAtRest /\ LedgerAtRest /\ GroupAtRest
Spec == Init /\ [][Next]_vars

\* the state an earlier session leaves behind: one full export of the
\* conversation, then of one turn, has completed, and one of the faults the
\* model allows has been met on the way
InitAfterExport ==
    /\ ChunkAtRest /\ SumAtRest /\ LedgerAtRest /\ GroupAtRest
    /\ exportHistory = [c \in Convs |-> HistoryRecord(1, 1)]
    /\ exportProgress = NoValue
    /\ masters = <<[conv |-> "c1", header |-> TRUE,
                    turns |-> <<[turn |-> 1, source |-> 1]>>]>>
    /\ runs = [r \in Runs |-> IdleRun]
    /\ started = 0
    /\ faults = 1
    /\ popup = [open |-> FALSE, conv |-> "c1", exportHistory |-> NoValue,
                buttons |-> "export", enabled |-> FALSE, run |-> 0,
                status |-> "none"]

SpecAfterExport == InitAfterExport /\ [][Next]_vars

\* the steps of activation r of handleFullExport: the returns of its awaits
RunStep(r) ==
    \/ ProgressStarting(r)
    \/ SummaryRequested(r)
    \/ SummaryReturned(r)
    \/ SummaryFailed(r)
    \/ ProgressCreating(r)
    \/ \E resp \in NotionResponses : CreateSkeleton(r, resp)
    \/ \E resp \in NotionResponses : ReadMaster(r, resp)
    \/ \E resp \in NotionResponses : AppendSkeleton(r, resp)
    \/ \E resp \in NotionResponses : PopulationSkipped(r, resp)
    \/ \E resp \in NotionResponses : PopulationWritten(r, resp)
    \/ StoreHistory(r)
    \/ ClearProgress(r)
    \/ CatchError(r)

\* the export runs while the worker is kept alive and every await of every
\* activation returns in the end
NextAlive ==
    \/ \E c \in Convs, turns \in TurnCounts : PopupOpen(c, turns)
    \/ \E found \in Extractions : ExportFindsNoTurns(found)
    \/ PollProgress
    \/ \E r \in Runs, mode \in {"full", "update"}, turns \in Extractions :
           StartExport(r, mode, turns)
    \/ \E r \in Runs, turns \in Extractions : StartExportNoNewTurns(r, turns)
    \/ \E r \in Runs : RunStep(r)

\* no export has been made; the behaviours that follow meet at most one
\* failing request
InitAlive ==
    /\ ChunkAtRest /\ SumAtRest /\ LedgerAtRest /\ GroupAtRest
    /\ exportHistory = [c \in Convs |-> NoValue]
    /\ exportProgress = NoValue
    /\ masters = <<>>
    /\ runs = [r \in Runs |-> IdleRun]
    /\ started = 0
    /\ faults = MaxFaults - 1
    /\ popup = [open |-> FALSE, conv |-> "c1", exportHistory |-> NoValue,
                buttons |-> "export", enabled |-> FALSE, run |-> 0,
                status |-> "none"]

SpecAlive == InitAlive /\ [][NextAlive]_vars /\ \A r \in Runs : WF_vars(RunStep(r))

InitSum == SumInit /\ ChunkAtRest /\ OrchInit /\ LedgerAtRest /\ GroupAtRest
SpecSum == InitSum /\ [][NextSum]_vars

InitChunk == ChunkInit /\ SumAtRest /\ OrchInit /\ LedgerAtRest /\ GroupAtRest

InitLedger == LedgerInit /\ ChunkAtRest /\ SumAtRest /\ OrchInit /\ GroupAtRest
SpecLedger == InitLedger /\ [][NextLedger]_vars

InitGroup == GroupInit /\ ChunkAtRest /\ SumAtRest /\ OrchInit /\ LedgerAtRest
SpecGroup == InitGroup /\ [][NextGroup]_vars
SpecChunk == InitChunk /\ [][NextChunk]_vars

\* chunkText is synchronous: once called it runs to its return
SpecChunkFair == InitChunk /\ [][NextChunk]_vars /\ WF_vars(NextChunk)

(***************************************************************************)
(* C4: every chunk chunkText(T, L) returns is at most L characters long.   *)
(* The cut after a sentence break found at index L ('. ' at L and L+1)     *)
(* keeps L+1 characters, so the code does not meet this.                   *)
(***************************************************************************)
C4_ChunksWithinLimit ==
    \A k \in 1..Len(ckChunks) : Len(ckChunks[k]) <= ckMax

(***************************************************************************)
(* C9: the summarization call is re-attempted only after a failure that is *)
(* a rate-limit (429) or a 5xx-class answer.  The failure of an attempt is *)
(* the last candidate's; shouldRetry tests the message for '5' and 'Error',*)
(* so a 400 whose message holds a digit 5 is retried as well.              *)
(***************************************************************************)
C9_RetryOnlyOnRateLimitOrServerError ==
    sPc = "backoff" =>
        LET status == sStatuses[Len(sStatuses)]
        IN  status = 429 \/ status \in 500..599

(***************************************************************************)
(* C10: when a candidate answered 429 in an attempt that ended without a   *)
(* summary, the call is retried unless the 3 attempts are used up.  The    *)
(* loop's catch swallows the rate-limit error and goes on to the next      *)
(* candidate, so only the last candidate's error reaches the wrapper.      *)
(***************************************************************************)
C10_RateLimitedAttemptIsRetried ==
    (sPc = "thrown" /\ \E k \in 1..Len(sStatuses) : sStatuses[k] = 429)
        => sAttempt = MaxRetries - 1

(***************************************************************************)
(* C1: when no run is in flight (each run ended in success or in error),   *)
(* the stored record's turnCount is the number of per-turn toggles under   *)
(* the master toggle the record names.  An update run that fails after its *)
(* skeleton append leaves the new toggles on the page and the record as it *)
(* was, so the code does not meet this.                                    *)
(***************************************************************************)
C1_TurnCountIsContainerCount ==
    (\A r \in Runs : runs[r].pc \in {"idle", "done", "failed"}) =>
        \A c \in Convs :
            exportHistory[c] # NoValue =>
                exportHistory[c].turnCount
                    = Len(masters[exportHistory[c].parentBlockId].turns)

(***************************************************************************)
(* C2: an update run with a record of k turns and a transcript of n turns  *)
(* calls handleSummarization for the turns at positions k+1..n, in that    *)
(* order and for no other turn, and its skeleton write appends the toggles *)
(* of exactly those turns.                                                 *)
(***************************************************************************)
C2_UpdateProcessesOnlyNewTurns ==
    \A r \in Runs :
        LET run == runs[r]
            k == run.existing.turnCount
            n == run.total
        IN  (UpdateMode(run) /\ run.pc \in ActivePcs \ {"store", "clear", "catch"}) =>
                /\ n > k
                /\ Len(run.calls) <= n - k
                /\ \A j \in 1..Len(run.calls) : run.calls[j] = k + j
                /\ run.pc \in {"creating", "skeleton", "populate"} => Len(run.calls) = n - k
                /\ run.appended = IF run.pc = "populate"
                                  THEN [j \in 1..(n - k) |-> k + j]
                                  ELSE <<>>

C2_UpdateOfTwoNewTurns ==
    \E r \in Runs :
        /\ UpdateMode(runs[r]) /\ runs[r].pc = "populate"
        /\ runs[r].existing.turnCount = 1 /\ runs[r].total = 3
        /\ runs[r].calls = <<2, 3>> /\ runs[r].appended = <<2, 3>>

(***************************************************************************)
(* C3, as stated: a run that ended in error or was torn down has not       *)
(* written the Ledger.  A teardown while the run awaits the removal of     *)
(* exportProgress comes after storeExportHistory, so this does not hold.   *)
(***************************************************************************)
C3_NoLedgerWriteUnlessRunCompleted ==
    \A r \in Runs : runs[r].pc \in {"failed", "torn"} => ~runs[r].wroteLedger

(***************************************************************************)
(* C3, amended: the Ledger is written only after the Document Builder has  *)
(* returned successfully; a run that ends in error has not written it, and *)
(* a run torn down has written it only if it was torn down after           *)
(* storeExportHistory, while exportProgress was still to be removed.       *)
(***************************************************************************)
C3_LedgerWrittenOnlyAfterBuilder ==
    \A r \in Runs :
        /\ runs[r].wroteLedger =>
              /\ runs[r].skeleton = "ok"
              /\ runs[r].pc \in {"clear", "done", "torn"}
              /\ exportHistory[runs[r].conv] # NoValue
        /\ runs[r].pc \in {"failed", "catch"} => ~runs[r].wroteLedger

C3_TornAfterLedgerWrite ==
    \E r \in Runs :
        /\ runs[r].pc = "torn" /\ runs[r].wroteLedger
        /\ exportHistory[runs[r].conv] # NoValue
        /\ exportProgress # NoValue /\ exportProgress.status = "creating"

(***************************************************************************)
(* C5: the summaries handed to the Document Builder are one per turn of    *)
(* the slice, in turn order; each is the model's summary of its turn or,   *)
(* for a turn whose summarization failed, the sentinel with that turn's    *)
(* number and text.  A failed summarization does not end the run.          *)
(***************************************************************************)
C5_OneSummaryPerTurn ==
    \A r \in Runs :
        LET run == runs[r]
        IN  /\ run.pc = "summarizing" => Len(run.summaries) = run.i
            /\ run.pc \in {"creating", "skeleton", "readMaster", "populate"} =>
                  /\ Len(run.summaries) = SliceLength(run)
                  /\ \A j \in 1..Len(run.summaries) :
                        run.summaries[j] \in
                            {ModelSummary(TurnAt(run.startIndex + j)),
                             SentinelSummary(TurnAt(run.startIndex + j))}
                  /\ Cardinality({j \in 1..Len(run.summaries) :
                        run.summaries[j] = SentinelSummary(TurnAt(run.startIndex + j))})
                       <= faults

C5_SentinelBetweenSummaries ==
    \E r \in Runs :
        /\ runs[r].pc = "skeleton" /\ SliceLength(runs[r]) = 3
        /\ runs[r].summaries = <<ModelSummary(TurnAt(1)), SentinelSummary(TurnAt(2)),
                                 ModelSummary(TurnAt(3))>>

(***************************************************************************)
(* C6: a skeleton request answered with a non-2xx status ends the run in   *)
(* error at once: no request of the second phase is made, the Error holds  *)
(* the Notion message, the Ledger is not written, and exportProgress is    *)
(* the error record when the run has ended (no other run having written    *)
(* exportProgress since).                                                  *)
(***************************************************************************)
C6_SkeletonRejectionEndsRun ==
    \A r \in Runs :
        LET run == runs[r]
        IN  run.skeleton = "rejected" =>
                /\ run.pc \in {"catch", "failed", "torn"}
                /\ run.failedIn = "skeleton"
                /\ \E m \in NotionMessages : run.error = <<"Notion API Error", m>>
                /\ run.phase2 = 0
                /\ ~run.wroteLedger
                /\ (run.pc = "failed" /\ \A q \in Runs \ {r} : runs[q].pc = "idle") =>
                       exportProgress = ErrorProgress(run.error)

C6_RunFailedOnSkeletonRejection ==
    \E r \in Runs :
        /\ runs[r].pc = "failed" /\ runs[r].skeleton = "rejected"
        /\ exportProgress # NoValue /\ exportProgress.status = "error"
        /\ exportHistory[runs[r].conv] = NoValue

(***************************************************************************)
(* C7: a failure of the read or of the write that populates one turn's     *)
(* "Source Text" toggle never fails the run.  A fetch that rejects in the  *)
(* population loop is caught nowhere but in handleFullExport, which ends   *)
(* the run in error, so the code does not meet this.                       *)
(***************************************************************************)
C7_PopulationFailureNeverFailsRun ==
    \A r \in Runs :
        runs[r].pc \in {"catch", "failed"} => runs[r].failedIn \notin {"popRead", "popWrite"}

(***************************************************************************)
(* C8: at most one export run is in flight.  The listener starts           *)
(* handleFullExport on every startExport, and a popup opened while a run   *)
(* is in flight can have enabled buttons, so the code does not meet this.  *)
(***************************************************************************)
C8_AtMostOneRunInFlight ==
    Cardinality({r \in Runs : InFlight(r)}) <= 1

C12_CandidatesInListOrder ==
    /\ sAsked = [k \in 1..Len(sAsked) |-> k]
    /\ Len(sAsked) = Len(sStatuses)
    /\ Len(sAsked) = IF sPc = "request" THEN sModel - 1 ELSE sModel
    /\ Len(sDelays) = IF sPc = "backoff" THEN sAttempt + 1 ELSE sAttempt
    /\ \A k \in 1..Len(sStatuses) :
           (sStatuses[k] = 404 /\ k < Len(sStatuses)) => sAsked[k + 1] = k + 1
    /\ sPc = "returned" =>
           /\ sResult # NoValue
           /\ sStatuses[Len(sStatuses)] = 200
           /\ sModel = Len(sAsked)

\* candidates A and B unavailable, C answers: two skipped, three requests, the
\* summary is C's, no retry and no delay
C12_ThirdCandidateAnswers ==
    /\ sPc = "returned"
    /\ sStatuses = <<404, 404, 200>>
    /\ sAsked = <<1, 2, 3>>
    /\ sModel = 3
    /\ sAttempt = 0 /\ sDelays = <<>> /\ sRequests = 3

\* ---------------------------------------------------------------------------
\* C13: a 2xx answer of a candidate always ends the call with that candidate's
\* summary: no later request, no failure.
C13_OkAnswerAlwaysYieldsSummary ==
    \A k \in 1..Len(sStatuses) :
        sStatuses[k] = 200 => (k = Len(sStatuses) /\ sPc = "returned")

\* ---------------------------------------------------------------------------
\* C14: retryWithBackoff waits InitialDelay after the failure of the first
\* attempt and twice that after the failure of the second, only when the
\* failure is one shouldRetry accepts; nothing is waited after the failure of
\* the last attempt nor after a failure shouldRetry refuses.
C14_BackoffDoubles ==
    /\ Len(sDelays) <= MaxRetries - 1
    /\ \A k \in 1..Len(sDelays) : sDelays[k] = InitialDelay * (2 ^ (k - 1))
    /\ sPc = "backoff" => (Len(sDelays) = sAttempt + 1 /\ shouldRetry(sLastError))
    /\ sPc = "thrown" =>
           /\ Len(sDelays) = sAttempt
           /\ (~shouldRetry(sLastError) \/ sAttempt = MaxRetries - 1)

\* the third attempt failed with a retryable error after waits of d and 2d,
\* and no third wait was made
C14_ThrownAfterTwoWaits ==
    /\ sPc = "thrown"
    /\ sAttempt = MaxRetries - 1
    /\ shouldRetry(sLastError)
    /\ sDelays = <<InitialDelay, 2 * InitialDelay>>

\* ---------------------------------------------------------------------------
\* C15: an update whose slice of new turns is empty ends in the error
\* 'No new turns to export': it goes from the slice straight to the catch,
\* having made no summarization request, no write to the page and no write to
\* exportHistory; the catch writes the error exportProgress with that message
\* and the caller is answered with the failure.  The step leaves exportHistory,
\* the page and what the popup offers as they were, so that the same update
\* sent again meets the same slice.
C15_EmptyUpdateEndsInError ==
    /\ [](\A r \in Runs :
            LET run == runs[r]
            IN  /\ (run.pc \in ActivePcs /\ UpdateMode(run) /\ SliceLength(run) = 0)
                       => (run.pc = "catch" /\ run.failedIn = "slice")
                /\ run.failedIn = "slice" =>
                       /\ run.pc \in {"catch", "failed", "torn"}
                       /\ run.exportMode = "update"
                       /\ run.error = <<"No new turns to export">>
                       /\ run.calls = <<>>
                       /\ run.skeleton = "none" /\ run.phase2 = 0
                       /\ run.appended = <<>>
                       /\ ~run.wroteLedger)
    /\ [][\A r \in Runs :
            (runs[r].failedIn = "slice" /\ runs[r].pc = "catch" /\ runs'[r].pc = "failed")
                => /\ exportProgress' = ErrorProgress(<<"No new turns to export">>)
                   /\ UNCHANGED <<exportHistory, masters>>
                   /\ popup'.exportHistory = popup.exportHistory
                   /\ popup'.buttons = popup.buttons
                   /\ (popup.open /\ popup.run = r) => popup'.enabled]_vars

\* an update of a conversation that lost turns since the popup was opened has
\* ended in the error
C15_EmptyUpdateFailed ==
    \E r \in Runs :
        /\ runs[r].pc = "failed" /\ runs[r].failedIn = "slice"
        /\ exportProgress = ErrorProgress(NoNewTurnsMessage)
        /\ exportHistory[runs[r].conv] # NoValue
        /\ popup.open /\ popup.enabled /\ popup.buttons = "update"

\* ---------------------------------------------------------------------------
\* C16: once a run has ended and until the next run starts, exportProgress is
\* absent if the run succeeded, and is the error record carrying the run's
\* failure reason if it failed.  (A slot keeps an ended run only until the
\* next activation starts.)
C16_ProgressReflectsOutcome ==
    \A r \in Runs :
        /\ runs[r].pc = "done" => exportProgress = NoValue
        /\ runs[r].pc = "failed" => exportProgress = ErrorProgress(runs[r].error)

\* ---------------------------------------------------------------------------
\* C17, as stated: the exportProgress writes of one run go forward along
\* starting, summarizing (once per turn of the slice), creating, and then the
\* record is removed or set to error; the status is never another value; and
\* a run reaches the catch or the end only after it has written 'starting'.
C17_StartingBeforeAnyOutcome ==
    /\ [](exportProgress # NoValue =>
              exportProgress.status \in {"starting", "summarizing", "creating", "error"})
    /\ [][\A r \in Runs :
            (runs'[r] # runs[r] /\ runs'[r].pc \in {"catch", "clear", "failed", "done"})
                => runs[r].pc \in ActivePcs \ {"starting"}]_vars

\* C17, amended: the same order of the writes of one run, where the run of an
\* update whose slice is empty goes to the catch before 'starting' is written
\* and writes the error record only.
C17_StatusOnlyMovesForward ==
    /\ [](exportProgress # NoValue =>
              exportProgress.status \in {"starting", "summarizing", "creating", "error"})
    /\ [][\A r \in Runs :
            LET run == runs[r]
                next == runs'[r]
            IN  (next # run /\ next.pc # "torn") =>
                    CASE run.pc = "starting" ->
                             /\ exportProgress'.status = "starting"
                             /\ next.pc = "summarizing" /\ next.i = 0
                      [] run.pc = "summarizing" ->
                             /\ exportProgress'.status = "summarizing"
                             /\ exportProgress'.current = run.i
                             /\ next.pc = "summary" /\ next.i = run.i
                      [] run.pc = "summary" ->
                             /\ exportProgress' = exportProgress
                             /\ next.i = run.i + 1
                             /\ next.pc = IF next.i < SliceLength(run)
                                          THEN "summarizing" ELSE "creating"
                      [] run.pc = "creating" ->
                             /\ exportProgress'.status = "creating"
                             /\ next.pc = "skeleton"
                      [] run.pc \in {"skeleton", "readMaster", "populate", "store"} ->
                             /\ exportProgress' = exportProgress
                             /\ next.pc \in {"readMaster", "populate", "store", "clear", "catch"}
                      [] run.pc = "clear" ->
                             /\ exportProgress' = NoValue
                             /\ next.pc = "done"
                      [] run.pc = "catch" ->
                             /\ exportProgress'.status = "error"
                             /\ exportProgress'.message.text = run.error
                             /\ next.pc = "failed"
                      [] OTHER ->
                             /\ exportProgress' = exportProgress
                             /\ \/ next.pc \in {"idle", "starting"}
                                \/ next.pc = "catch" /\ next.failedIn = "slice"]_vars

\* the run of an update with an empty slice is at the catch, about to write
\* the error record, and no 'starting' record was written: the record of the
\* run before it was removed and none was written since
C17_AtCatchWithoutStarting ==
    \E r \in Runs :
        /\ runs[r].pc = "catch" /\ runs[r].failedIn = "slice"
        /\ exportProgress = NoValue
        /\ \A q \in Runs \ {r} : runs[q].pc = "idle"

\* ---------------------------------------------------------------------------
\* C18: within one run handleSummarization is called for the turns of the
\* slice one after the other, in increasing position and without a gap; a call
\* is made only when every earlier call has ended with a summary or a sentinel
\* pushed, so at most one call of the run is awaited at any time.
C18_TurnsSummarizedInSequence ==
    \A r \in Runs :
        LET run == runs[r]
            ended == Len(run.summaries)
        IN  /\ run.calls = [k \in 1..Len(run.calls) |-> run.startIndex + k]
            /\ Len(run.calls) = IF run.pc = "summary" THEN ended + 1 ELSE ended
            /\ \A k \in 1..ended : run.summaries[k].sourceUser = run.calls[k]
            /\ run.pc \in {"summarizing", "summary"} => ended = run.i
            /\ Len(run.calls) <= SliceLength(run)

\* the call for the third turn is awaited after the first turn's ended with a
\* sentinel and the second's with a summary
C18_ThirdTurnAwaited ==
    \E r \in Runs :
        /\ runs[r].pc = "summary"
        /\ runs[r].calls = <<1, 2, 3>>
        /\ Len(runs[r].summaries) = 2
        /\ runs[r].summaries[1] = SentinelSummary(TurnAt(1))
        /\ runs[r].summaries[2] = ModelSummary(TurnAt(2))

\* ---------------------------------------------------------------------------
\* C19: a step of an update run never adds a master toggle nor a header; what
\* it writes goes under the master toggle that exportHistory records for the
\* conversation: new per-turn toggles at its end, and source text into those
\* new toggles only; and when the run stores its record, the parentBlockId of
\* exportHistory is the one it was before.
C19_UpdateWritesUnderLedgerMaster ==
    [][\A r \in Runs :
        LET run == runs[r]
            ledger == exportHistory[run.conv].parentBlockId
            old == masters[ledger].turns
            new == masters'[ledger].turns
        IN  (InFlight(r) /\ UpdateMode(run) /\ runs'[r] # run /\ runs'[r].pc # "torn") =>
                /\ Len(masters') = Len(masters)
                /\ \A k \in 1..Len(masters) : k # ledger => masters'[k] = masters[k]
                /\ masters'[ledger].header = masters[ledger].header
                /\ Len(new) >= Len(old)
                /\ run.pc = "skeleton" =>
                       \A k \in 1..Len(old) : new[k] = old[k]
                /\ run.pc = "populate" =>
                       /\ Len(new) = Len(old)
                       /\ \A k \in 1..run.base : new[k] = old[k]
                /\ exportHistory'[run.conv].parentBlockId = ledger]_vars

\* ---------------------------------------------------------------------------
\* C20: a full export never writes into a master toggle other than the one it
\* has created, so the second of two full exports of a conversation leaves the
\* first master as it was; and once both have stored their record,
\* exportHistory names the master of the second.  (The second slot is taken
\* by the activation that starts while the first slot's is in flight.)
C20_RecordNamesSecondMaster ==
    /\ [][\A r \in Runs :
            LET run == runs[r]
            IN  (InFlight(r) /\ ~UpdateMode(run) /\ runs'[r] # run) =>
                    /\ Len(masters') >= Len(masters)
                    /\ \A k \in 1..Len(masters) :
                           k # run.parentBlockId => masters'[k] = masters[k]]_vars
    /\ [](\A r \in Runs :
            (/\ runs[r].pc = "clear" /\ ~UpdateMode(runs[r])
             /\ r > 1
             /\ \A q \in Runs : q < r =>
                    (runs[q].exportMode = "full" /\ runs[q].wroteLedger))
                => exportHistory[runs[r].conv] =
                       HistoryRecord(runs[r].total, runs[r].parentBlockId))

\* ---------------------------------------------------------------------------
\* C21: the chunks chunkText returns, taken in order, are the text with
\* nothing but whitespace left out, and what is left out lies at the ends of
\* the chunks: the text is the chunks in order with only whitespace before,
\* between and after them, so no other character is dropped, duplicated or
\* reordered.  While the loop runs the same holds of the chunks cut so far
\* followed by the remaining text.
C21_ChunksRebuildText ==
    LET RECURSIVE Rebuilds(_, _)
        Rebuilds(text, pieces) ==
            IF pieces = <<>> THEN \A j \in 1..Len(text) : text[j] \in Whitespace
            ELSE \E k \in 0..Len(text) :
                     /\ \A j \in 1..k : text[j] \in Whitespace
                     /\ k + Len(Head(pieces)) <= Len(text)
                     /\ Substring(text, k, k + Len(Head(pieces))) = Head(pieces)
                     /\ Rebuilds(SubstringFrom(text, k + Len(Head(pieces))), Tail(pieces))
    IN  /\ ckPc = "done" => Rebuilds(ckText, ckChunks)
        /\ ckPc = "loop" => Rebuilds(ckText, Append(ckChunks, ckRemaining))

\* a text cut into two chunks with whitespace left out at the cut
C21_WhitespaceLeftOutAtCut ==
    /\ ckPc = "done"
    /\ Len(ckChunks) = 2
    /\ Len(ckChunks[1]) + Len(ckChunks[2]) < Len(ckText)
    /\ ckText[1] \notin Whitespace /\ ckText[Len(ckText)] \notin Whitespace

\* ---------------------------------------------------------------------------
\* C22: for a text no longer than the limit chunkText returns the text itself
\* as its only chunk, untrimmed.
C22_ShortTextIsItsOnlyChunk ==
    (ckPc = "done" /\ Len(ckText) <= ckMax) => ckChunks = <<ckText>>

\* a short text with whitespace at both ends was returned as it is
C22_ShortTextKeptUntrimmed ==
    /\ ckPc = "done"
    /\ Len(ckText) = 3 /\ ckMax = 3
    /\ ckText[1] \in Whitespace /\ ckText[3] \in Whitespace
    /\ ckChunks = <<ckText>>

\* ---------------------------------------------------------------------------
\* C23: chunkText returns for every text and every limit of at least 1: each
\* iteration of the cutting loop that cuts leaves a shorter remaining text.
C23_ChunkTextTerminates ==
    /\ <>(ckPc = "done")
    /\ [][(ckPc = "loop" /\ ckPc' = "loop") =>
              Len(ckRemaining') < Len(ckRemaining)]_vars

\* the loop has cut twice and returned
C23_ReturnedAfterTwoCuts ==
    /\ ckPc = "done"
    /\ Len(ckText) > 2 * ckMax
    /\ Len(ckChunks) = 3

\* ---------------------------------------------------------------------------
\* C24, as stated: for a text longer than twice the limit and no longer than
\* three times the limit exactly 3 paragraph blocks are written, whatever the
\* text contains; for a text within the limit exactly 1.
C24_ThreeBlocksWhateverTheBreaks ==
    ckPc = "done" =>
        /\ (2 * ckMax < Len(ckText) /\ Len(ckText) <= 3 * ckMax)
               => Len(ChunkBlocks(ckChunks)) = 3
        /\ Len(ckText) <= ckMax => Len(ChunkBlocks(ckChunks)) = 1

\* C24, amended: exactly 1 block for a text within the limit; exactly 3 for a
\* text of length in (2L, 3L] that holds no whitespace, hence no paragraph or
\* sentence break, each block but the last of L characters; at least 1 block
\* for any text.
C24_ThreeBlocksWithoutBreaks ==
    ckPc = "done" =>
        LET blocks == ChunkBlocks(ckChunks)
            plain == \A j \in 1..Len(ckText) : ckText[j] \notin Whitespace
        IN  /\ Len(blocks) >= 1
            /\ Len(ckText) <= ckMax => blocks = <<[type |-> "paragraph", content |-> ckText]>>
            /\ (plain /\ 2 * ckMax < Len(ckText) /\ Len(ckText) <= 3 * ckMax) =>
                   /\ Len(blocks) = 3
                   /\ Len(blocks[1].content) = ckMax /\ Len(blocks[2].content) = ckMax
                   /\ blocks[1].content \o blocks[2].content \o blocks[3].content = ckText

\* a text of five characters with full stops and no whitespace, limit 2, has
\* been written as three blocks
C24_ThreeBlocksWritten ==
    /\ ckPc = "done"
    /\ ckMax = 2 /\ Len(ckText) = 5
    /\ \A j \in 1..5 : ckText[j] \notin Whitespace
    /\ \E j \in 1..5 : ckText[j] = "."
    /\ Len(ChunkBlocks(ckChunks)) = 3

\* ---------------------------------------------------------------------------
\* C25: the skeleton write of a run whose mode is 'update' adds toggles to an
\* existing master toggle, that of any other run adds a master toggle, and in
\* both the toggles written are those of the turns the run has summarized;
\* the notification of a run that completes has the title 'Update Complete'
\* for the former and 'Export Complete' for the latter, and reports the
\* number of those turns.
C25_NoticeMatchesWhatRunDid ==
    [][\A r \in Runs :
        LET run == runs[r]
            next == runs'[r]
        IN  /\ (run.pc = "skeleton" /\ next # run /\ next.skeleton = "ok") =>
                   /\ run.exportMode = "update" <=> Len(masters') = Len(masters)
                   /\ run.exportMode # "update" <=> Len(masters') = Len(masters) + 1
                   /\ next.appended = run.calls
                   /\ Len(run.calls) = SliceLength(run)
            /\ (run.pc = "clear" /\ next.pc = "done") =>
                   /\ run.skeleton = "ok"
                   /\ next.notice.title = IF run.exportMode = "update"
                                          THEN "Update Complete" ELSE "Export Complete"
                   /\ next.notice.text = IF run.exportMode = "update"
                                         THEN "Successfully added N new turns to Notion!"
                                         ELSE "Successfully exported N turns to Notion!"
                   /\ next.notice.n = SliceLength(run)]_vars

\* an update that added two turns to a conversation of three has completed
C25_UpdateOfTwoTurnsNotified ==
    \E r \in Runs :
        /\ runs[r].pc = "done"
        /\ runs[r].notice.title = "Update Complete"
        /\ runs[r].notice.n = 2
        /\ exportHistory["c1"].turnCount = 3

\* ---------------------------------------------------------------------------
\* C26: when extraction fails or finds no turn, handleExport shows the error
\* and sends nothing: no activation of handleFullExport starts, and the runs,
\* exportProgress, exportHistory and the page are as they were; hence every
\* activation that starts carries at least one turn.
C26_NoTurnsNoRun ==
    /\ [][(popup.open /\ popup.run = 0 /\ popup'.open /\ popup' # popup
               /\ popup'.status = "error")
              => UNCHANGED <<runs, started, exportProgress, exportHistory, masters>>]_vars
    /\ [][\A r \in Runs :
            (~InFlight(r) /\ runs'[r].pc \in ActivePcs) => runs'[r].total >= 1]_vars
    /\ [](\A r \in Runs : InFlight(r) => runs[r].total >= 1)

\* the popup shows the error of an extraction that found nothing, and nothing
\* has been started or stored
C26_ErrorShownNothingStarted ==
    /\ popup.open /\ popup.status = "error" /\ popup.enabled
    /\ started = 0
    /\ \A r \in Runs : runs[r] = IdleRun
    /\ exportProgress = NoValue /\ masters = <<>>
    /\ exportHistory = [c \in Convs |-> NoValue]

\* ---------------------------------------------------------------------------
\* C27: the storage write that ends a call of storeExportHistory changes the
\* record of the call's conversation only: the record of every other
\* conversation is after the write what it was before it, also when the
\* callbacks of two calls interleave.
C27_StoreReplacesOnlyItsRecord ==
    [][\A w \in Callers :
        (lgCalls[w].pc = "set" /\ lgCalls'[w].pc = "resolved")
            => \A u \in Urls : u # lgCalls[w].url => lgStore'[u] = lgStore[u]]_vars

\* ---------------------------------------------------------------------------
\* C28: an update starts its slice at the turnCount exportHistory holds for
\* the conversation when the run starts, and no turn has more than one
\* per-turn toggle under a master toggle.
C28_NoTurnAppendedTwice ==
    /\ [][\A r \in Runs :
            (~InFlight(r) /\ runs'[r].pc \in ActivePcs /\ runs'[r].exportMode = "update")
                => runs'[r].startIndex = exportHistory[runs'[r].conv].turnCount]_vars
    /\ [](\A k \in 1..Len(masters) :
            \A i, j \in 1..Len(masters[k].turns) :
                i < j => masters[k].turns[i].turn # masters[k].turns[j].turn)

\* ---------------------------------------------------------------------------
\* C29: a run makes its skeleton write once, after 'creating' is written, when
\* every turn of its slice has been summarized, and never again; the reads
\* and population writes of phase 2 are made only by a run whose skeleton
\* write has returned success, and a run that completes has made it.
C29_SkeletonThenPopulation ==
    /\ [](\A r \in Runs :
            LET run == runs[r]
            IN  /\ run.pc \in {"starting", "summarizing", "summary", "creating", "skeleton"}
                       => (run.skeleton = "none" /\ run.phase2 = 0)
                /\ run.pc \in {"skeleton", "readMaster", "populate"} =>
                       /\ Len(run.calls) = SliceLength(run)
                       /\ Len(run.summaries) = SliceLength(run)
                /\ run.skeleton # "none" =>
                       (run.pc = "catch" => Len(run.summaries) = SliceLength(run))
                /\ run.phase2 > 0 => run.skeleton = "ok"
                /\ run.pc \in {"readMaster", "populate", "store", "clear", "done"}
                       => run.skeleton = "ok")
    /\ [][\A r \in Runs :
            /\ (runs'[r].pc = "skeleton" /\ runs[r].pc # "skeleton")
                   => runs[r].pc = "creating"
            /\ (runs[r].pc = "skeleton" /\ runs'[r] # runs[r])
                   => runs'[r].pc \in {"readMaster", "populate", "catch", "torn"}
            /\ (InFlight(r) /\ runs[r].pc # "skeleton" /\ runs'[r].pc \in ActivePcs)
                   => runs'[r].skeleton = runs[r].skeleton]_vars

\* an update of two new turns is in phase 2 after its skeleton write: the
\* first of its toggles has been read and written
C29_UpdateInPhaseTwo ==
    \E r \in Runs :
        /\ runs[r].pc = "populate"
        /\ runs[r].exportMode = "update"
        /\ runs[r].skeleton = "ok"
        /\ runs[r].phase2 = 2
        /\ Len(runs[r].summaries) = 2

\* ---------------------------------------------------------------------------
\* C30: a run that is in the population loop and is not ended from outside
\* goes through its summaries one by one, from the first to the last, before
\* it leaves the loop; and an iteration for summary i changes nothing on the
\* page but the source text of the per-turn toggle this run's skeleton write
\* made for summary i, under the run's own master toggle.
C30_EverySummaryPopulatedInItsToggle ==
    [][\A r \in Runs :
        LET run == runs[r]
            next == runs'[r]
            s == SummaryIndex(run, run.popI)
        IN  /\ (run.pc # "populate" /\ next.pc = "populate")
                   => SummaryIndex(next, next.popI) = 1
            /\ (run.pc = "populate" /\ next # run /\ next.pc # "torn") =>
                   /\ \/ next.pc = "populate" /\ SummaryIndex(next, next.popI) = s + 1
                      \/ next.pc = "store" /\ s = Len(run.summaries)
                   /\ s \in 1..Len(run.summaries)
                   /\ \/ masters' = masters
                      \/ masters' = [masters EXCEPT
                                        ![run.parentBlockId].turns[run.base + s].source =
                                            run.summaries[s].sourceUser]
                   /\ masters[run.parentBlockId].turns[run.base + s].turn
                          = run.summaries[s].sourceUser
                   /\ run.base + s <= Len(masters[run.parentBlockId].turns)]_vars

\* ---------------------------------------------------------------------------
\* C31: a run that has written its record and is about to remove the
\* progress record finds, under its conversation, the number of turns of its
\* transcript and the master toggle it wrote into (the one its skeleton
\* write made in full mode, the one it was given in update mode); the record
\* is written by a run whose Document Builder has returned, before the
\* progress record is removed.
C31_RecordOfCompletedRun ==
    /\ [](\A r \in Runs :
            LET run == runs[r]
            IN  run.pc = "clear" =>
                    /\ run.wroteLedger /\ run.skeleton = "ok"
                    /\ exportHistory[run.conv] = HistoryRecord(run.total, run.parentBlockId)
                    /\ run.parentBlockId \in 1..Len(masters)
                    /\ UpdateMode(run) => run.parentBlockId = run.existing.parentBlockId)
    /\ [][\A r \in Runs :
            (~runs[r].wroteLedger /\ runs'[r].wroteLedger)
                => (runs[r].pc = "store" /\ runs'[r].pc = "clear")]_vars

\* ---------------------------------------------------------------------------
\* C32: the children written into a "Source Text" toggle for a user text and
\* an assistant text are the bold "User:" label, one paragraph per chunk of
\* the user text in chunk order, the bold "Assistant:" label and one
\* paragraph per chunk of the assistant text in chunk order, and no
\* paragraph of text is longer than the limit.
C32_PopulationWriteBlocks ==
    ckPc = "done" =>
        \A assistant \in StringsUpTo(2) :
            LET userChunks == ckChunks
                assistantChunks == chunkText(assistant, ckMax)
                children == sourceTextChildren(userChunks, assistantChunks)
                u == Len(userChunks)
                a == Len(assistantChunks)
            IN  /\ Len(children) = 2 + u + a
                /\ "bold" \in DOMAIN children[1] /\ children[1].content[1] = "U"
                /\ "bold" \in DOMAIN children[u + 2] /\ children[u + 2].content[1] = "A"
                /\ \A k \in 1..u :
                       /\ "bold" \notin DOMAIN children[1 + k]
                       /\ children[1 + k].content = userChunks[k]
                       /\ Len(children[1 + k].content) <= ckMax
                /\ \A k \in 1..a :
                       /\ "bold" \notin DOMAIN children[u + 2 + k]
                       /\ children[u + 2 + k].content = assistantChunks[k]
                       /\ Len(children[u + 2 + k].content) <= ckMax

\* ---------------------------------------------------------------------------
\* C33: whatever the roles of the extracted messages, every pair that
\* groupTurns returns has a turnNumber of 1 or more that is its position in
\* the returned sequence.
C33_TurnNumberIsPosition ==
    gtPc = "returned" =>
        \A k \in 1..Len(gtPairs) :
            gtPairs[k].turnNumber > 0 /\ gtPairs[k].turnNumber = k

\* ---------------------------------------------------------------------------
\* C34: when the popup that started a run and is polling for it shows a
\* terminal outcome, the outcome is that run's: "Export completed!" only
\* when the run has ended successfully, an error only when the run has ended
\* in error or the worker was ended.
C34_PopupShowsOutcomeOfItsRun ==
    [][(popup.open /\ popup.run # 0 /\ popup'.open /\ popup'.run = 0) =>
           /\ popup'.status = "success" => runs'[popup.run].pc = "done"
           /\ popup'.status = "error" => runs'[popup.run].pc \in {"failed", "torn"}]_vars

\* ---------------------------------------------------------------------------
\* C35: when every await returns in the end, every activation in flight
\* ends: in success, with its record written and the progress record
\* removed as its last step, or in error, with the progress record set to
\* the error as its last step.
C35_EveryRunEnds ==
    /\ \A r \in Runs :
           (runs[r].pc \in ActivePcs) ~> (runs[r].pc \in {"done", "failed"})
    /\ [][\A r \in Runs :
            /\ (InFlight(r) /\ runs'[r].pc = "done")
                   => (runs[r].wroteLedger /\ exportProgress' = NoValue)
            /\ (InFlight(r) /\ runs'[r].pc = "failed")
                   => exportProgress' = ErrorProgress(runs[r].error)
            /\ InFlight(r) => runs'[r].pc \in ActivePcs \cup {"done", "failed"}]_vars

\* an activation has ended in error after its skeleton write, another one
\* in success
C35_OneFailedOneDone ==
    /\ runs[1].pc = "failed" /\ runs[1].skeleton = "ok"
    /\ runs[2].pc = "done"

\* ---------------------------------------------------------------------------
\* C36: one call of handleSummarization makes at most 3 attempts, each
\* attempt asks the candidates from the first one on, each at most once, and
\* so the call issues at most 15 requests.
C36_AtMostFifteenRequests ==
    /\ sAttempt \in 0..(MaxRetries - 1)
    /\ Len(sAsked) <= Len(modelsToTry)
    /\ \A k \in 1..Len(sAsked) : sAsked[k] = k
    /\ sRequests <= sAttempt * Len(modelsToTry) + Len(sAsked)
    /\ sRequests <= 15

\* the call has thrown after its fifteenth request
C36_FifteenRequestsMade ==
    sPc = "thrown" /\ sRequests = 15 /\ sAttempt = 2 /\ Len(sAsked) = 5

\* ---------------------------------------------------------------------------
\* C37 (as stated): a stored progress record has 0 <= current <= total; while
\* the only activation there is summarizes and the record says summarizing,
\* current is the number of turns of the slice whose summarization has ended
\* and total the size of the slice; a record that says creating has
\* current = total.
C37_CurrentCountsEndedTurns ==
    /\ exportProgress # NoValue =>
           /\ 0 <= exportProgress.current
           /\ exportProgress.current <= exportProgress.total
           /\ exportProgress.status = "creating"
                  => exportProgress.current = exportProgress.total
    /\ \A r \in Runs :
           (/\ \A q \in Runs \ {r} : runs[q].pc = "idle"
            /\ runs[r].pc \in {"summarizing", "summary", "creating"}
            /\ exportProgress # NoValue
            /\ IF exportProgress = NoValue THEN FALSE
               ELSE exportProgress.status = "summarizing")
               => /\ exportProgress.current = Len(runs[r].summaries)
                  /\ exportProgress.total = SliceLength(runs[r])

\* C37 (amended): a stored progress record has 0 <= current <= total, and
\* current = total when it says creating; the summarizing record is written
\* at the start of a turn's iteration, with the number of turns ended so far
\* and the size of the slice, and is not written again when the turn's
\* summarization ends, so that until the next write, one more turn has
\* ended than it says; the creating record carries the size of the slice
\* twice.
C37_CurrentCountsTurnsBeforeTheWrite ==
    /\ [](exportProgress # NoValue =>
              /\ 0 <= exportProgress.current
              /\ exportProgress.current <= exportProgress.total
              /\ exportProgress.status = "creating"
                     => exportProgress.current = exportProgress.total)
    /\ [][\A r \in Runs :
            /\ (runs[r].pc = "summarizing" /\ runs'[r].pc = "summary") =>
                   /\ exportProgress'.status = "summarizing"
                   /\ exportProgress'.current = Len(runs[r].summaries)
                   /\ exportProgress'.total = SliceLength(runs[r])
            /\ (runs[r].pc = "summary" /\ runs'[r].pc \in {"summarizing", "creating"}) =>
                   /\ exportProgress' = exportProgress
                   /\ Len(runs'[r].summaries) = Len(runs[r].summaries) + 1
            /\ (runs[r].pc = "creating" /\ runs'[r].pc = "skeleton") =>
                   /\ exportProgress'.status = "creating"
                   /\ exportProgress'.current = SliceLength(runs[r])
                   /\ exportProgress'.total = SliceLength(runs[r])]_vars

\* the summarization of the first of two turns has ended and the record
\* still says 0 of 2
C37_RecordOneTurnBehind ==
    /\ runs[1].pc = "summarizing" /\ runs[2].pc = "idle"
    /\ Len(runs[1].summaries) = 1
    /\ exportProgress # NoValue
    /\ exportProgress = SummarizingProgress([runs[1] EXCEPT !.i = 0])
    /\ exportProgress.current = 0 /\ exportProgress.total = 2

\* ---------------------------------------------------------------------------
\* C38 (as stated): no chunk of a text that is not empty is empty.
C38_NoEmptyChunk ==
    (ckPc = "done" /\ ckText # <<>>) =>
        \A k \in 1..Len(ckChunks) : ckChunks[k] # <<>>

\* C38 (amended): no chunk of a text that is not empty and does not start
\* with whitespace is empty, and none of a text within the limit.
C38_NoEmptyChunkOfTrimmedText ==
    (/\ ckPc \in {"loop", "done"}
     /\ ckText # <<>>
     /\ Len(ckText) <= ckMax \/ Head(ckText) \notin Whitespace) =>
        /\ \A k \in 1..Len(ckChunks) : ckChunks[k] # <<>>
        /\ ckChunks = chunkText(ckText, ckMax) \/ ckPc = "loop"

\* a text cut in three chunks, with whitespace inside, none of them empty
C38_ThreeChunksNoneEmpty ==
    /\ ckPc = "done"
    /\ Len(ckText) > 0
    /\ Head(ckText) \notin Whitespace
    /\ \E k \in 1..Len(ckText) : ckText[k] \in Whitespace
    /\ Len(ckChunks) = 3
    /\ \A k \in 1..3 : ckChunks[k] # <<>>

\* ---------------------------------------------------------------------------
\* C39: an activation has slept once, for the delay between turns, after
\* each turn of its slice but the last: n - 1 times when its n turns are
\* summarized; in the population loop it sleeps after each population write
\* that returns, before the read of the next turn, and not after a read
\* that made it skip the turn.
C39_PacingDelays ==
    /\ [](\A r \in Runs :
            LET run == runs[r]
            IN  /\ run.pc \in {"summarizing", "summary"} =>
                       /\ Len(run.sleeps) = run.i
                       /\ Len(run.summaries) = run.i
                /\ run.pc \in {"creating", "skeleton"} =>
                       /\ Len(run.summaries) = SliceLength(run)
                       /\ Len(run.sleeps) = SliceLength(run) - 1
                /\ run.pc \in {"summarizing", "summary", "creating", "skeleton"} =>
                       \A k \in 1..Len(run.sleeps) : run.sleeps[k] = TurnDelay)
    /\ [][\A r \in Runs :
            LET run == runs[r]
                next == runs'[r]
            IN  (run.pc = "populate" /\ next.pc = "populate" /\ next # run) =>
                    /\ next.phase2 = run.phase2 + 2
                           => next.sleeps = Append(run.sleeps, PopulationDelay)
                    /\ next.phase2 = run.phase2 + 1 => next.sleeps = run.sleeps]_vars

\* an export of two turns has slept between its turns and after its first
\* population write, and is at the second turn's read
C39_SleptBetweenTurnsAndAfterWrite ==
    \E r \in Runs :
        /\ runs[r].pc = "populate"
        /\ Len(runs[r].summaries) = 2
        /\ runs[r].sleeps = <<TurnDelay, PopulationDelay>>

====
